---- MODULE Spec2Model ----
(***************************************************************************)
(* A model of the MSL compiler (Malmosmo/MSL): the AST interpreter of      *)
(* src/msl/ast.py driven by Compiler.compile of src/msl/compiler.py, and   *)
(* the statement-terminator pass of src/compiler/preprocesser.py.          *)
(*                                                                         *)
(* Python strings are sequences of one-character strings, so that          *)
(* formatting, slicing, prefix tests and the template regular expression   *)
(* are computed character by character.                                    *)
(***************************************************************************)
EXTENDS Integers, Sequences, FiniteSets, TLC

VARIABLES
    prog,       \* ProgramNode.value.block: the top-level statements
    pc,         \* position of compile: "block", "for", "while", "done"
    idx,        \* index in prog of the statement BlockNode.interpret is at
    st,         \* what interpretation mutates: context, files, node fields
    commands,   \* BlockNode.interpret's local `commands` (top-level block)
    loopCmds,   \* ForNode/WhileNode.interpret's local `commands`
    cond,       \* ForNode/WhileNode.interpret's local `condition`
    iters,      \* iterations the running loop has made
    outcome,    \* "running", "ok", "error" (diagnostic), "raise", "cut"
    err,        \* the error compile returns, or the exception raised
    parts,      \* history: the value each finished top-level statement gave
    preSt,      \* history: st before the statement that ran last
    source,     \* front end: the source text, a sequence of lines
    lexed,      \* front end: the tokens of the preprocessed text
    earlier,    \* history: what an earlier compile of the same source gave
    input,      \* history: the text compile read from inFile
    watch       \* watch mode: the clock, the handler and the pending events

vars == <<prog, pc, idx, st, commands, loopCmds, cond, iters, outcome, err,
          parts, preSt, source, lexed, earlier, input, watch>>

(***************************************************************************)
(* Bounds of the model.                                                    *)
(***************************************************************************)
MaxStmts == 2       \* top-level statements of a program
MaxN == 2           \* largest limit n of a loop condition i < n
MaxIter == 3        \* iterations after which a loop is cut off
MaxLines == 3       \* lines of a source text (front end)
MaxTime == 6        \* watch mode: the clock stops after this many half seconds
MaxEvents == 3      \* watch mode: changes the watched files undergo

(***************************************************************************)
(* Python string helpers.                                                  *)
(***************************************************************************)
StartsWith(s, p) == Len(p) <= Len(s) /\ SubSeq(s, 1, Len(p)) = p

EndsWith(s, p) ==
    Len(p) <= Len(s) /\ SubSeq(s, Len(s) - Len(p) + 1, Len(s)) = p

\* s[a:] and s[:-1] style slices
DropFirst(s, n) == SubSeq(s, n + 1, Len(s))

RECURSIVE Join(_, _)
\* sep.join(list)
Join(list, sep) ==
    IF list = <<>> THEN <<>>
    ELSE IF Len(list) = 1 THEN list[1]
    ELSE list[1] \o sep \o Join(Tail(list), sep)

RECURSIVE Split(_, _)
\* s.split(c) for a one-character separator c
Split(s, c) ==
    IF \A i \in 1..Len(s) : s[i] # c THEN <<s>>
    ELSE LET i == CHOOSE j \in 1..Len(s) :
                      s[j] = c /\ \A k \in 1..(j - 1) : s[k] # c
         IN <<SubSeq(s, 1, i - 1)>> \o Split(DropFirst(s, i), c)

RECURSIVE LStrip(_, _)
\* s.lstrip(chars)
LStrip(s, chars) ==
    IF s # <<>> /\ Head(s) \in chars THEN LStrip(Tail(s), chars) ELSE s

RECURSIVE RStrip(_, _)
\* s.rstrip(chars)
RStrip(s, chars) ==
    IF s # <<>> /\ s[Len(s)] \in chars
    THEN RStrip(SubSeq(s, 1, Len(s) - 1), chars) ELSE s

RECURSIVE Replace(_, _, _)
\* s.replace(old, new) for a non-empty old: every non-overlapping
\* occurrence, left to right
Replace(s, old, new) ==
    IF s = <<>> THEN <<>>
    ELSE IF StartsWith(s, old) THEN new \o Replace(DropFirst(s, Len(old)), old, new)
    ELSE <<Head(s)>> \o Replace(Tail(s), old, new)

UpperChars == <<"A","B","C","D","E","F","G","H","I","J","K","L","M",
                "N","O","P","Q","R","S","T","U","V","W","X","Y","Z">>
LowerChars == <<"a","b","c","d","e","f","g","h","i","j","k","l","m",
                "n","o","p","q","r","s","t","u","v","w","x","y","z">>
DigitChars == <<"0","1","2","3","4","5","6","7","8","9">>

Range(f) == { f[i] : i \in DOMAIN f }

\* s.lower()
Lower(s) ==
    [ i \in 1..Len(s) |->
        IF s[i] \in Range(UpperChars)
        THEN LowerChars[CHOOSE j \in 1..26 : UpperChars[j] = s[i]]
        ELSE s[i] ]

RECURSIVE NatToStr(_)
NatToStr(n) ==
    IF n < 10 THEN <<DigitChars[n + 1]>>
    ELSE NatToStr(n \div 10) \o <<DigitChars[(n % 10) + 1]>>

\* str(n) for a Python int
IntToStr(n) == IF n < 0 THEN <<"-">> \o NatToStr(0 - n) ELSE NatToStr(n)

\* the literal texts of the source (f-string parts, str() forms) and the
\* lexemes of the programs below, as sequences of characters
Lit ==
    [ none |-> <<"N","o","n","e">>,
      true |-> <<"T","r","u","e">>,
      false |-> <<"F","a","l","s","e">>,
      null |-> <<"n","u","l","l">>,
      execute |-> <<"e","x","e","c","u","t","e"," ">>,
      sb_set |-> <<"s","c","o","r","e","b","o","a","r","d"," ","p","l","a","y","e","r","s"," ","s","e","t"," ">>,
      sb_op |-> <<"s","c","o","r","e","b","o","a","r","d"," ","p","l","a","y","e","r","s"," ","o","p","e","r","a","t","i","o","n"," ">>,
      sb_add |-> <<"s","c","o","r","e","b","o","a","r","d"," ","p","l","a","y","e","r","s"," ","a","d","d"," ">>,
      sb_remove |-> <<"s","c","o","r","e","b","o","a","r","d"," ","p","l","a","y","e","r","s"," ","r","e","m","o","v","e"," ">>,
      run |-> <<" ","r","u","n"," ">>,
      one |-> <<" ", "1">>,
      include |-> <<"i","n","c","l","u","d","e">>,
      i |-> <<"i">>,
      x |-> <<"x">>,
      y |-> <<"y">>,
      s |-> <<"s">>,
      obj |-> <<"o","b","j">>,
      say_hi |-> <<"s","a","y"," ","h","i">>,
      say_tpl |-> <<"s","a","y"," ","$","(","i",")">>,
      comment |-> <<"/","/"," ","c">>,
      as |-> <<"a","s">>,
      at |-> <<"a","t">>,
      q_a |-> <<"\"","@","a","\"">>,
      q_s |-> <<"\"","@","s","\"">>,
      q_f |-> <<"\"","f","\"">>,
      out |-> <<"m","a","i","n",".","m","c","f","u","n","c","t","i","o","n">>,
      mc |-> <<"m","c",".","m","c","f","u","n","c","t","i","o","n">> ]

(***************************************************************************)
(* Python values.  A record [k, v]: k is the class, v the payload.         *)
(* A ScoreRef is the score's name as a plain str, as in the source.        *)
(***************************************************************************)
None == [k |-> "None", v |-> 0]
NULL == [k |-> "Null", v |-> 0]
IntV(n) == [k |-> "Int", v |-> n]
StrV(s) == [k |-> "Str", v |-> s]
BoolV(b) == [k |-> "Bool", v |-> b]
\* a float, held as its number of halves: FloatV(7) is 3.5
FloatV(h) == [k |-> "Float", v |-> h]
MinecraftCommand(value) == [k |-> "MinecraftCommand", v |-> value]
ExecuteCommand(value) == [k |-> "ExecuteCommand", v |-> value]
MinecraftComment(value) == [k |-> "MinecraftComment", v |-> value]
MinecraftCommandList(cmds) == [k |-> "MinecraftCommandList", v |-> cmds]

\* str(value), which an f-string applies to the values it formats
PyStr(value) ==
    CASE value.k = "Int" -> IntToStr(value.v)
      [] value.k = "Str" -> value.v
      [] value.k = "Bool" -> IF value.v THEN Lit.true ELSE Lit.false
      [] value.k = "Float" ->
            (IF value.v < 0 THEN <<"-">> ELSE <<>>)
            \o NatToStr((IF value.v < 0 THEN 0 - value.v ELSE value.v) \div 2)
            \o (IF value.v % 2 = 0 THEN <<".", "0">> ELSE <<".", "5">>)
      [] value.k = "None" -> Lit.none
      [] value.k = "Null" -> Lit.null

\* bool(value), as `while condition:` takes it
Truthy(value) ==
    CASE value.k \in {"Int", "Float"} -> value.v # 0
      [] value.k = "Str" -> value.v # <<>>
      [] value.k = "Bool" -> value.v
      [] value.k = "None" -> FALSE
      [] OTHER -> TRUE

\* MinecraftCommand.toStr, ExecuteCommand.toStr, MinecraftComment.toStr
toStr(command) ==
    IF command.k = "ExecuteCommand" THEN Lit.execute \o command.v ELSE command.v

\* MinecraftCommandList.toStr
ListToStr(cmds) == Join([i \in 1..Len(cmds) |-> toStr(cmds[i])], <<"\n">>)

(***************************************************************************)
(* Context (src/msl/ast.py).  frames[1] is the context itself, frames[2]   *)
(* its parent, and so on; compile builds a context without a parent.       *)
(* srcFile and src only feed the text of diagnostics and are left out.     *)
(***************************************************************************)
EmptyMap == [x \in {} |-> 0]

Put(map, key, value) ==
    [x \in DOMAIN map \cup {key} |-> IF x = key THEN value ELSE map[x]]

Context(dstFile) ==
    [dstFile |-> dstFile,
     frames |-> <<[variables |-> EmptyMap, scores |-> EmptyMap]>>]

\* the parent of a context that has one
Parent(ctx) == [ctx EXCEPT !.frames = Tail(@)]

RECURSIVE isVariable(_, _)
isVariable(ctx, name) ==
    LET result == name \in DOMAIN ctx.frames[1].variables
    IN  IF ~result /\ Len(ctx.frames) > 1
        THEN isVariable(Parent(ctx), name) ELSE result

RECURSIVE getVariable(_, _)
getVariable(ctx, name) ==
    LET result == IF name \in DOMAIN ctx.frames[1].variables
                  THEN ctx.frames[1].variables[name] ELSE None
    IN  IF result = None /\ Len(ctx.frames) > 1
        THEN getVariable(Parent(ctx), name) ELSE result

RECURSIVE isScore(_, _)
isScore(ctx, name) ==
    LET result == name \in DOMAIN ctx.frames[1].scores
    IN  IF ~result /\ Len(ctx.frames) > 1
        THEN isScore(Parent(ctx), name) ELSE result

RECURSIVE getScore(_, _)
getScore(ctx, name) ==
    LET result == IF name \in DOMAIN ctx.frames[1].scores
                  THEN ctx.frames[1].scores[name] ELSE <<None, None>>
    IN  IF result = <<None, None>> /\ Len(ctx.frames) > 1
        THEN getScore(Parent(ctx), name) ELSE result

\* context.variables[name] = value
SetVariable(ctx, name, value) ==
    [ctx EXCEPT !.frames[1].variables = Put(@, name, value)]

\* context.scores[name] = [scoreboard, scoreboard_name]
SetScore(ctx, name, scoreboard, scoreboard_name) ==
    [ctx EXCEPT !.frames[1].scores =
                    Put(@, name, <<StrV(scoreboard), StrV(scoreboard_name)>>)]

\* Context declares no method get_var: the call raises Error("AttributeError")
get_var(ctx, var) == [raised |-> TRUE, value |-> None]

(***************************************************************************)
(* RTResult.  status "ok": success(value); "error": failure(error), or an  *)
(* error taken over by register(); "raise": a Python exception left the    *)
(* call.  st is the mutable state as the call leaves it.                   *)
(***************************************************************************)
\* an error object or exception, by its class; "none" is no error and
\* "str" the bare string of the max-recursion failure
Error(cls) == [cls |-> cls]

Success(value, s) == [status |-> "ok", value |-> value, error |-> Error("none"), st |-> s]
Failure(error, s) == [status |-> "error", value |-> None, error |-> error, st |-> s]
Raise(exc, s) == [status |-> "raise", value |-> None, error |-> exc, st |-> s]

\* value = result.register(r); if result.error: return result
Propagate(r) == [r EXCEPT !.value = None]

(***************************************************************************)
(* AST nodes, as the parser's productions build them.                      *)
(***************************************************************************)
BlockNode(stmts) == [kind |-> "Block", block |-> stmts]
CommentNode(value) == [kind |-> "Comment", value |-> value]
McCmdNode(value) == [kind |-> "McCmd", value |-> value]
FuncNode(name, body) ==
    [kind |-> "Func", name |-> SubSeq(name, 2, Len(name) - 1), body |-> body]
ScoreDeclNode(name, scoreboard, scoreboard_name) ==
    [kind |-> "ScoreDecl", name |-> name, scoreboard |-> scoreboard,
     scoreboard_name |-> scoreboard_name]
ScoreInitNode(decl, value) == [kind |-> "ScoreInit", decl |-> decl, value |-> value]
GroupSpecNode(keyword, target) ==
    [kind |-> "GroupSpec",
     value |-> keyword \o <<" ">> \o SubSeq(target, 2, Len(target) - 1)]
\* GroupSpecNode.append, as group_spec_rec calls it
GroupSpecNode_append(self, other) ==
    [self EXCEPT !.value = @ \o <<" ">> \o other.value]
GroupNode(specifier, body) ==
    [kind |-> "Group", specifier |-> specifier, body |-> body]
VariableAssignNode(name, value) ==
    [kind |-> "VariableAssign", name |-> name, value |-> value]
VariableAccessNode(name) == [kind |-> "VariableAccess", name |-> name]
VariableIncrementNode(name) == [kind |-> "VariableIncrement", name |-> name]
VariableDecrementNode(name) == [kind |-> "VariableDecrement", name |-> name]
BinaryLENode(left, right) == [kind |-> "BinaryLE", left |-> left, right |-> right]
BinaryDivNode(left, right) == [kind |-> "BinaryDiv", left |-> left, right |-> right]
BinaryAddNode(left, right) == [kind |-> "BinaryAdd", left |-> left, right |-> right]
IntegerNode(value) == [kind |-> "Integer", value |-> value]
\* StringNode.value is a str: the field is named str here to keep it apart
\* from the int of IntegerNode.value
StringNode(value) == [kind |-> "String", str |-> SubSeq(value, 2, Len(value) - 1)]
BooleanNode(value) == [kind |-> "Boolean", value |-> value]
ForNode(assgn, condition, increment, body) ==
    [kind |-> "For", assgn |-> assgn, condition |-> condition,
     increment |-> increment, body |-> body]
WhileNode(condition, body) ==
    [kind |-> "While", condition |-> condition, body |-> body]

(***************************************************************************)
(* The interpreter.  Interp(node, path, s) is node.interpret(context):     *)
(* path names the node (its position in the tree) and s = [ctx, files,     *)
(* nodes] is everything interpretation mutates: the context, the files     *)
(* written, and the loop/ctr fields of the McCmdNode objects.              *)
(***************************************************************************)
RECURSIVE Interp(_, _, _)
RECURSIVE BlockNode_loop(_, _, _, _, _)

WRITE_COMMENTS == TRUE
MAX_REC_LIMIT == 10

IdentStart == Range(LowerChars) \cup Range(UpperChars) \cup {"_"}
IdentChar == IdentStart \cup Range(DigitChars)

\* REGEX = \$\([_a-zA-Z][_a-zA-Z0-9]{0,31}\): the length of its match at
\* the start of s, 0 when it does not match there
REGEX_match(s) ==
    IF Len(s) >= 4 /\ s[1] = "$" /\ s[2] = "(" /\ s[3] \in IdentStart
    THEN LET more == CHOOSE n \in 0..31 :
                 /\ \A j \in 1..n : 3 + j <= Len(s) /\ s[3 + j] \in IdentChar
                 /\ \/ n = 31
                    \/ 4 + n > Len(s)
                    \/ s[4 + n] \notin IdentChar
         IN  IF 4 + more <= Len(s) /\ s[4 + more] = ")" THEN 4 + more ELSE 0
    ELSE 0

\* the loop and ctr fields of the McCmdNode at `path`: as McCmdNode.__init__
\* sets them until the node has been interpreted
NodeFields(s, path) ==
    IF path \in DOMAIN s.nodes THEN s.nodes[path] ELSE [loop |-> TRUE, ctr |-> 0]

\* McCmdNode.replace(match, context): [self, raised, text]
McCmdNode_replace(self, match, ctx) ==
    LET self1 == [self EXCEPT !.loop = TRUE]
        var == SubSeq(match, 3, Len(match) - 1)
        got == get_var(ctx, var)
    IN  IF got.raised THEN [self |-> self1, raised |-> TRUE, text |-> <<>>]
        ELSE IF got.value # None
        THEN [self |-> self1, raised |-> FALSE, text |-> PyStr(got.value)]
        ELSE [self |-> self1, raised |-> FALSE, text |-> var]

RECURSIVE re_sub(_, _, _)
\* re.sub(REGEX, lambda match: self.replace(match, context), string):
\* [self, raised, string]
re_sub(self, string, ctx) ==
    IF string = <<>> THEN [self |-> self, raised |-> FALSE, string |-> <<>>]
    ELSE LET m == REGEX_match(string)
         IN  IF m = 0
             THEN LET rest == re_sub(self, Tail(string), ctx)
                  IN  [rest EXCEPT !.string = <<Head(string)>> \o @]
             ELSE LET rep == McCmdNode_replace(self, SubSeq(string, 1, m), ctx)
                  IN  IF rep.raised
                      THEN [self |-> rep.self, raised |-> TRUE, string |-> <<>>]
                      ELSE LET rest == re_sub(rep.self, DropFirst(string, m), ctx)
                           IN  [rest EXCEPT !.string = rep.text \o @]

RECURSIVE McCmdNode_while(_, _, _)
\* the `while self.loop and self.ctr < MAX_REC_LIMIT` loop
McCmdNode_while(self, string, ctx) ==
    IF self.loop /\ self.ctr < MAX_REC_LIMIT
    THEN LET sub == re_sub([self EXCEPT !.loop = FALSE, !.ctr = @ + 1], string, ctx)
         IN  IF sub.raised THEN sub
             ELSE McCmdNode_while(sub.self, sub.string, ctx)
    ELSE [self |-> self, raised |-> FALSE, string |-> string]

McCmdNode_interpret(node, path, s) ==
    LET w == McCmdNode_while(NodeFields(s, path), node.value, s.ctx)
        self1 == [w.self EXCEPT !.loop = TRUE]
    IN  IF w.raised
        THEN Raise(Error("AttributeError"), [s EXCEPT !.nodes = Put(@, path, w.self)])
        ELSE IF self1.ctr >= MAX_REC_LIMIT
        THEN Failure(Error("str"), [s EXCEPT !.nodes = Put(@, path, self1)])
        ELSE Success(MinecraftCommand(w.string),
                     [s EXCEPT !.nodes = Put(@, path, [self1 EXCEPT !.ctr = 0])])

CommentNode_interpret(node, s) ==
    IF WRITE_COMMENTS
    THEN LET comment == RStrip(LStrip(node.value, {"/", "*", "\n", " "}),
                               {"*", "/", "\n", " "})
             comments == Split(comment, "\n")
             first == IF StartsWith(comments[1], <<">">>)
                      THEN Lower(comments[1]) ELSE <<" ">> \o comments[1]
             joined == Join([comments EXCEPT ![1] = first], <<"\n", "#", " ">>)
         IN  Success(MinecraftComment(<<"#">> \o joined), s)
    ELSE Success(NULL, s)

\* BlockCollect putting the child's lines in front of the earlier ones
BlockCollect_prepend(commands_, value) ==
    IF value.k \in {"MinecraftComment", "ExecuteCommand", "MinecraftCommand"}
    THEN <<value>> \o commands_
    ELSE IF value.k = "MinecraftCommandList"
    THEN value.v \o commands_
    ELSE commands_

\* BlockCollect with add() where extend() belongs: the list becomes an element
BlockCollect_nest(commands_, value) ==
    IF value.k \in {"MinecraftComment", "ExecuteCommand", "MinecraftCommand",
                    "MinecraftCommandList"}
    THEN Append(commands_, value)
    ELSE commands_

\* BlockNode.interpret, lines 206-210: what a child's value adds
BlockCollect(commands_, value) ==
    IF value.k \in {"MinecraftComment", "ExecuteCommand", "MinecraftCommand"}
    THEN Append(commands_, value)
    ELSE IF value.k = "MinecraftCommandList"
    THEN commands_ \o value.v
    ELSE commands_

\* lines 201-210: the child's result is registered
BlockNode_next(block, i, commands_, path, r) ==
    IF r.status # "ok" THEN Propagate(r)
    ELSE BlockNode_loop(block, i + 1, BlockCollect(commands_, r.value), path, r.st)

BlockNode_loop(block, i, commands_, path, s) ==
    IF i > Len(block) THEN Success(MinecraftCommandList(commands_), s)
    ELSE BlockNode_next(block, i, commands_, path, Interp(block[i], path \o <<i>>, s))

BlockNode_interpret(node, path, s) == BlockNode_loop(node.block, 1, <<>>, path, s)

\* pathlib: Path(p).stem for a file name without directories
PathStem(name) ==
    LET dots == { i \in 1..Len(name) : name[i] = "." }
    IN  IF dots = {} THEN name
        ELSE LET i == CHOOSE d \in dots : \A e \in dots : e <= d
             IN  IF 1 < i /\ i < Len(name) THEN SubSeq(name, 1, i - 1) ELSE name

\* FuncNode.interpret, line 236: the sibling file's name
FuncDstPath(dstFile, name) == Replace(dstFile, PathStem(dstFile), name)

\* lines 232-241: r is the body's result
FuncNode_write(node, r) ==
    IF r.status # "ok" THEN Propagate(r)
    ELSE Success(NULL,
             [r.st EXCEPT !.files =
                 Put(@, FuncDstPath(r.st.ctx.dstFile, node.name),
                     ListToStr(r.value.v))])

FuncNode_interpret(node, path, s) == FuncNode_write(node, Interp(node.body, path, s))

\* ScoreDeclNode_interpret without the isScore test: a redeclaration overwrites
ScoreDeclNode_interpret_overwrite(node, s) ==
    Success(NULL, [s EXCEPT !.ctx =
                 SetScore(@, node.name, node.scoreboard, node.scoreboard_name)])

\* ScoreDeclNode.interpret, lines 254-267
ScoreDeclNode_interpret(node, s) ==
    IF ~isScore(s.ctx, node.name)
    THEN Success(NULL, [s EXCEPT !.ctx =
                 SetScore(@, node.name, node.scoreboard, node.scoreboard_name)])
    ELSE Failure(Error("NameError"), s)

\* f"scoreboard players set {scoreboard_name} {scoreboard} {value}"
ScoreSetCommand(scoreboard, scoreboard_name, value) ==
    MinecraftCommand(Lit.sb_set \o PyStr(scoreboard_name) \o <<" ">>
                     \o PyStr(scoreboard) \o <<" ">> \o PyStr(value))

\* ScoreInitNode_emit with objective and player the other way round
ScoreInitNode_emit_swapped(node, r) ==
    IF r.status # "ok" THEN Propagate(r)
    ELSE Success(ScoreSetCommand(getScore(r.st.ctx, node.decl.name)[2],
                                 getScore(r.st.ctx, node.decl.name)[1], r.value),
                 r.st)

\* lines 288-293: r is the value's result
ScoreInitNode_emit(node, r) ==
    IF r.status # "ok" THEN Propagate(r)
    ELSE Success(ScoreSetCommand(getScore(r.st.ctx, node.decl.name)[1],
                                 getScore(r.st.ctx, node.decl.name)[2], r.value),
                 r.st)

\* lines 283-286: d is the declaration's result
ScoreInitNode_value(node, path, d) ==
    IF d.status # "ok" THEN Propagate(d)
    ELSE ScoreInitNode_emit(node, Interp(node.value, path, d.st))

ScoreInitNode_interpret(node, path, s) ==
    ScoreInitNode_value(node, path, Interp(node.decl, path, s))

RECURSIVE GroupNode_wrap(_, _)
\* GroupNode_wrap without the branch that passes a comment through
GroupNode_wrap_dropComment(specifier, cmds) ==
    IF cmds = <<>> THEN <<>>
    ELSE LET command == Head(cmds)
             rest == GroupNode_wrap(specifier, Tail(cmds))
         IN  IF command.k = "MinecraftCommand"
             THEN <<ExecuteCommand(specifier \o Lit.run \o command.v)>> \o rest
             ELSE IF command.k = "ExecuteCommand"
             THEN <<ExecuteCommand(specifier \o <<" ">> \o command.v)>> \o rest
             ELSE rest

\* GroupNode_wrap putting "run" before an ExecuteCommand's tail as well
GroupNode_wrap_runTwice(specifier, cmds) ==
    IF cmds = <<>> THEN <<>>
    ELSE LET command == Head(cmds)
             rest == GroupNode_wrap(specifier, Tail(cmds))
         IN  IF command.k \in {"MinecraftCommand", "ExecuteCommand"}
             THEN <<ExecuteCommand(specifier \o Lit.run \o command.v)>> \o rest
             ELSE IF command.k = "MinecraftComment"
             THEN <<command>> \o rest
             ELSE rest

\* GroupNode.interpret, lines 321-333: the loop over value.commands
GroupNode_wrap(specifier, cmds) ==
    IF cmds = <<>> THEN <<>>
    ELSE LET command == Head(cmds)
             rest == GroupNode_wrap(specifier, Tail(cmds))
         IN  IF command.k = "MinecraftCommand"
             THEN <<ExecuteCommand(specifier \o Lit.run \o command.v)>> \o rest
             ELSE IF command.k = "ExecuteCommand"
             THEN <<ExecuteCommand(specifier \o <<" ">> \o command.v)>> \o rest
             ELSE IF command.k = "MinecraftComment"
             THEN <<command>> \o rest
             ELSE rest

\* lines 315-338: sp is the specifier's result, r the body's
GroupNode_commands(sp, r) ==
    IF r.status # "ok" THEN Propagate(r)
    ELSE IF r.value.k = "MinecraftCommandList"
    THEN Success(MinecraftCommandList(GroupNode_wrap(sp.value.v, r.value.v)), r.st)
    ELSE Success(MinecraftCommandList(<<>>), r.st)

\* lines 310-313
GroupNode_body(node, path, sp) ==
    IF sp.status # "ok" THEN Propagate(sp)
    ELSE GroupNode_commands(sp, Interp(node.body, path, sp.st))

GroupNode_interpret(node, path, s) ==
    GroupNode_body(node, path, Interp(node.specifier, path, s))

GroupSpecNode_interpret(node, s) == Success(StrV(node.value), s)

\* f"scoreboard players operation {name} {scoreboard} = {name_2} {scoreboard_2}"
ScoreOperationCommand(scoreboard, scoreboard_name, scoreboard_2, scoreboard_name_2) ==
    MinecraftCommand(Lit.sb_op \o PyStr(scoreboard_name) \o <<" ">>
                     \o PyStr(scoreboard) \o <<" ", "=", " ">>
                     \o PyStr(scoreboard_name_2) \o <<" ">> \o PyStr(scoreboard_2))

\* lines 412-427: r is the right-hand side's result
VariableAssignNode_assign(node, r) ==
    IF r.status # "ok" THEN Propagate(r)
    ELSE IF isScore(r.st.ctx, node.name)
    THEN LET sc == getScore(r.st.ctx, node.name)
         IN  IF r.value.k = "Str"
             THEN LET sc2 == getScore(r.st.ctx, r.value.v)
                  IN  Success(ScoreOperationCommand(sc[1], sc[2], sc2[1], sc2[2]),
                              r.st)
             ELSE Success(ScoreSetCommand(sc[1], sc[2], r.value), r.st)
    ELSE Success(NULL, [r.st EXCEPT !.ctx = SetVariable(@, node.name, r.value)])

VariableAssignNode_interpret(node, path, s) ==
    VariableAssignNode_assign(node, Interp(node.value, path, s))

\* VariableAccessNode_interpret giving Null for a name that is not bound
VariableAccessNode_interpret_lenient(node, s) ==
    IF isVariable(s.ctx, node.name)
    THEN Success(getVariable(s.ctx, node.name), s)
    ELSE IF isScore(s.ctx, node.name)
    THEN Success(StrV(node.name), s)
    ELSE Success(NULL, s)

VariableAccessNode_interpret(node, s) ==
    IF isVariable(s.ctx, node.name)
    THEN Success(getVariable(s.ctx, node.name), s)
    ELSE IF isScore(s.ctx, node.name)
    THEN Success(StrV(node.name), s)
    ELSE Failure(Error("NameError"), s)

\* a Python int, bool or float as a number
IsNumber(value) == value.k \in {"Int", "Bool", "Float"}
\* the number in halves (True is 1, False is 0), and the int or float that an
\* operation on left and right gives: a float as soon as one operand is one
Halves(value) ==
    CASE value.k = "Float" -> value.v
      [] value.k = "Bool" -> IF value.v THEN 2 ELSE 0
      [] OTHER -> 2 * value.v
Number(left, right, h) ==
    IF "Float" \in {left.k, right.k} THEN FloatV(h) ELSE IntV(h \div 2)

\* left + right: [raised, value]
PyAdd(left, right) ==
    IF IsNumber(left) /\ IsNumber(right)
    THEN [raised |-> FALSE,
          value |-> Number(left, right, Halves(left) + Halves(right))]
    ELSE IF left.k = "Str" /\ right.k = "Str"
    THEN [raised |-> FALSE, value |-> StrV(left.v \o right.v)]
    ELSE [raised |-> TRUE, value |-> None]

\* left - right: [raised, value]
PySub(left, right) ==
    IF IsNumber(left) /\ IsNumber(right)
    THEN [raised |-> FALSE,
          value |-> Number(left, right, Halves(left) - Halves(right))]
    ELSE [raised |-> TRUE, value |-> None]

\* left < right for numbers; an int against a str raises Error("TypeError")
PyLess(left, right) ==
    IF IsNumber(left) /\ IsNumber(right)
    THEN [raised |-> FALSE, value |-> BoolV(Halves(left) < Halves(right))]
    ELSE [raised |-> TRUE, value |-> None]

\* left / right, Python 3's true division: a float also for two ints, and
\* ZeroDivisionError for a zero divisor.  The quotient is exact when it is a
\* multiple of one half, as the quotients of the programs below are.
PyDiv(left, right) ==
    IF IsNumber(left) /\ IsNumber(right) /\ Halves(right) # 0
    THEN [raised |-> FALSE,
          value |-> FloatV((2 * Halves(left)) \div Halves(right))]
    ELSE [raised |-> TRUE, value |-> None]

\* VariableIncrementNode.interpret (delta 1) and VariableDecrementNode.interpret
\* (delta -1), which differ in the operator and in add/remove
VariableStepNode_interpret(node, s, delta) ==
    IF isVariable(s.ctx, node.name)
    THEN LET value == getVariable(s.ctx, node.name)
             sum == IF delta = 1 THEN PyAdd(value, IntV(1)) ELSE PySub(value, IntV(1))
         IN  IF sum.raised THEN Raise(Error("TypeError"), s)
             ELSE Success(NULL, [s EXCEPT !.ctx = SetVariable(@, node.name, sum.value)])
    ELSE IF isScore(s.ctx, node.name)
    THEN LET sc == getScore(s.ctx, node.name)
         IN  Success(MinecraftCommand(
                 (IF delta = 1 THEN Lit.sb_add ELSE Lit.sb_remove)
                 \o PyStr(sc[2]) \o <<" ">> \o PyStr(sc[1]) \o Lit.one), s)
    ELSE Failure(Error("NameError"), s)

\* BinaryLENode.operation, BinaryDivNode.operation and
\* BinaryAddNode.operation: [raised, value]
operation(node, left, right) ==
    CASE node.kind = "BinaryDiv" -> PyDiv(left, right)
      [] node.kind = "BinaryAdd" -> PyAdd(left, right)
      [] OTHER -> PyLess(left, right)

\* line 794: l and r are the operands' results
BinaryOpNode_operate(node, l, r) ==
    IF r.status # "ok" THEN Propagate(r)
    ELSE IF operation(node, l.value, r.value).raised
    THEN Raise(Error(IF IsNumber(l.value) /\ IsNumber(r.value)
                     THEN "ZeroDivisionError" ELSE "TypeError"), r.st)
    ELSE Success(operation(node, l.value, r.value).value, r.st)

\* lines 786-792
BinaryOpNode_right(node, path, l) ==
    IF l.status # "ok" THEN Propagate(l)
    ELSE BinaryOpNode_operate(node, l, Interp(node.right, path, l.st))

BinaryOpNode_interpret(node, path, s) ==
    BinaryOpNode_right(node, path, Interp(node.left, path, s))

Interp(node, path, s) ==
    CASE node.kind = "Block" -> BlockNode_interpret(node, path, s)
      [] node.kind = "Comment" -> CommentNode_interpret(node, s)
      [] node.kind = "McCmd" -> McCmdNode_interpret(node, path, s)
      [] node.kind = "Func" -> FuncNode_interpret(node, path, s)
      [] node.kind = "ScoreDecl" -> ScoreDeclNode_interpret(node, s)
      [] node.kind = "ScoreInit" -> ScoreInitNode_interpret(node, path, s)
      [] node.kind = "Group" -> GroupNode_interpret(node, path, s)
      [] node.kind = "GroupSpec" -> GroupSpecNode_interpret(node, s)
      [] node.kind = "VariableAssign" -> VariableAssignNode_interpret(node, path, s)
      [] node.kind = "VariableAccess" -> VariableAccessNode_interpret(node, s)
      [] node.kind = "VariableIncrement" -> VariableStepNode_interpret(node, s, 1)
      [] node.kind = "VariableDecrement" -> VariableStepNode_interpret(node, s, 0 - 1)
      [] node.kind \in {"BinaryLE", "BinaryDiv", "BinaryAdd"} -> BinaryOpNode_interpret(node, path, s)
      [] node.kind = "Integer" -> Success(IntV(node.value), s)
      [] node.kind = "String" -> Success(StrV(node.str), s)
      [] node.kind = "Boolean" -> Success(BoolV(node.value), s)

(***************************************************************************)
(* The front end: PreProcesser (src/compiler/preprocesser.py), the token   *)
(* patterns of src/msl/compiler.py, and the productions of                 *)
(* src/compiler/parser.py that the source texts of Sources exercise.       *)
(***************************************************************************)
MINECRAFT_KEYWORDS ==
    << <<"a","d","v","a","n","c","e","m","e","n","t">>,
       <<"a","t","t","r","i","b","u","t","e">>, <<"b","a","n">>,
       <<"b","a","n","-","i","p">>, <<"b","a","n","l","i","s","t">>,
       <<"b","o","s","s","b","a","r">>, <<"c","l","e","a","r">>,
       <<"c","l","o","n","e">>, <<"d","a","t","a">>,
       <<"d","a","t","a","p","a","c","k">>, <<"d","e","b","u","g">>,
       <<"d","e","f","a","u","l","t","g","a","m","e","m","o","d","e">>,
       <<"d","e","o","p">>, <<"d","i","f","f","i","c","u","l","t">>,
       <<"e","f","f","e","c","t">>, <<"e","n","c","h","a","n","t">>,
       <<"e","x","e","c","u","t","e">>,
       <<"e","x","p","e","r","i","e","n","c","e">>, <<"f","i","l","l">>,
       <<"f","o","r","c","e","l","o","a","d">>,
       <<"f","u","n","c","t","i","o","n">>,
       <<"g","a","m","e","m","o","d","e">>,
       <<"g","a","m","e","r","u","l","e">>, <<"g","i","v","e">>,
       <<"h","e","l","p">>, <<"i","t","e","m">>, <<"j","f","r">>,
       <<"k","i","c","k">>, <<"k","i","l","l">>, <<"l","i","s","t">>,
       <<"l","o","c","a","t","e">>,
       <<"l","o","c","a","t","e","b","i","o","m","e">>, <<"l","o","o","t">>,
       <<"m","e">>, <<"m","s","g">>, <<"o","p">>, <<"p","a","r","d","o","n">>,
       <<"p","a","r","d","o","n","-","i","p">>,
       <<"p","a","r","t","i","c","l","e">>,
       <<"p","l","a","y","s","o","u","n","d">>,
       <<"p","u","b","l","i","s","h">>, <<"r","e","c","i","p","e">>,
       <<"r","e","l","o","a","d">>, <<"s","a","v","e","-","a","l","l">>,
       <<"s","a","v","e","-","o","f","f">>, <<"s","a","v","e","-","o","n">>,
       <<"s","a","y">>, <<"s","c","h","e","d","u","l","e">>,
       <<"s","c","o","r","e","b","o","a","r","d">>, <<"s","e","e","d">>,
       <<"s","e","t","b","l","o","c","k">>,
       <<"s","e","t","i","d","l","e","t","i","m","e","o","u","t">>,
       <<"s","e","t","w","o","r","l","d","s","p","a","w","n">>,
       <<"s","p","a","w","n","p","o","i","n","t">>,
       <<"s","p","e","c","t","a","t","e">>,
       <<"s","p","r","e","a","d","p","l","a","y","e","r","s">>,
       <<"s","t","o","p">>, <<"s","t","o","p","s","o","u","n","d">>,
       <<"s","u","m","m","o","n">>, <<"t","a","g">>, <<"t","e","a","m">>,
       <<"t","e","a","m","m","s","g">>, <<"t","e","l","e","p","o","r","t">>,
       <<"t","e","l","l">>, <<"t","e","l","l","r","a","w">>,
       <<"t","i","m","e">>, <<"t","i","t","l","e">>, <<"t","m">>, <<"t","p">>,
       <<"t","r","i","g","g","e","r">>, <<"w">>,
       <<"w","e","a","t","h","e","r">>,
       <<"w","h","i","t","e","l","i","s","t">>,
       <<"w","o","r","l","d","b","o","r","d","e","r">>, <<"x","p">> >>

\* str.splitlines() for texts whose only line boundary is "\n"
splitlines(s) ==
    IF s = <<>> THEN <<>>
    ELSE LET parts_ == Split(s, "\n")
         IN  IF parts_[Len(parts_)] = <<>>
             THEN SubSeq(parts_, 1, Len(parts_) - 1) ELSE parts_

\* str.splitlines(True): every line keeps its "\n"
splitlines_keepends(s) ==
    LET ls == splitlines(s)
    IN  [i \in 1..Len(ls) |->
            IF i < Len(ls) \/ EndsWith(s, <<"\n">>) THEN ls[i] \o <<"\n">> ELSE ls[i]]

\* the files beside inFile that an include directive can name
IncludeDir ==
    (<<"l","i","b">> :> <<"s","a","y"," ","l","i","b">>)
    @@ (<<"i","n","c">> :> <<"i","n","c","l","u","d","e"," ","<","l","i","b",">">>)

\* regex include <[\w\.]+> : the length of its match at the start of s
include_match(s) ==
    IF StartsWith(s, Lit.include \o <<" ", "<">>)
    THEN LET name == CHOOSE n \in 0..Len(s) :
                 /\ \A j \in 1..n : 9 + j <= Len(s) /\ s[9 + j] \in IdentChar \cup {"."}
                 /\ \/ 10 + n > Len(s)
                    \/ s[10 + n] \notin IdentChar \cup {"."}
         IN  IF name > 0 /\ 10 + name <= Len(s) /\ s[10 + name] = ">"
             THEN 10 + name ELSE 0
    ELSE 0

\* PreProcesser.replace: the file's text; None (which re.sub takes as the
\* empty string) when there is no such file
PreProcesser_replace(match) ==
    LET name == SubSeq(match, 10, Len(match) - 1)
    IN  IF name \in DOMAIN IncludeDir THEN IncludeDir[name] ELSE <<>>

RECURSIVE include_sub(_)
\* re.sub(regex, self.replace, line)
include_sub(line) ==
    IF line = <<>> THEN <<>>
    ELSE LET m == include_match(line)
         IN  IF m = 0 THEN <<Head(line)>> \o include_sub(Tail(line))
             ELSE PreProcesser_replace(SubSeq(line, 1, m))
                  \o include_sub(DropFirst(line, m))

\* PreProcesser.include
include(source_) ==
    LET lines == splitlines_keepends(source_)
    IN  Join([i \in 1..Len(lines) |->
                 IF StartsWith(lines[i], Lit.include) THEN include_sub(lines[i])
                 ELSE lines[i]], <<>>)

\* add_endings_line leaving comment mode in front of a line that ends in */
add_endings_line_early(line0, comment0) ==
    LET line == LStrip(RStrip(line0, {"\n", " "}), {"\t", " "})
        comment1 == IF Len(line) > 0 /\ StartsWith(line, <<"/", "*">>)
                    THEN TRUE
                    ELSE comment0 /\ ~EndsWith(line, <<"*", "/">>)
        line1 == IF Len(line) > 0 /\ ~comment1
                 THEN IF (\E k \in 1..Len(MINECRAFT_KEYWORDS) : StartsWith(line, MINECRAFT_KEYWORDS[k]))
                      THEN line \o <<";">>
                      ELSE IF ~(line[Len(line)] \in {"{", "(", "}", ",", ";"})
                              /\ ~StartsWith(line, <<"/", "/">>)
                      THEN line \o <<";">>
                      ELSE line
                 ELSE line
    IN  [line |-> line1,
         comment |-> IF EndsWith(line1, <<"*", "/">>) THEN FALSE ELSE comment1]

\* add_endings, lines 24-39: one line; [line, comment]
add_endings_line(line0, comment0) ==
    LET line == LStrip(RStrip(line0, {"\n", " "}), {"\t", " "})
        comment1 == IF Len(line) > 0 /\ StartsWith(line, <<"/", "*">>)
                    THEN TRUE ELSE comment0
        line1 == IF Len(line) > 0 /\ ~comment1
                 THEN IF (\E k \in 1..Len(MINECRAFT_KEYWORDS) : StartsWith(line, MINECRAFT_KEYWORDS[k]))
                      THEN line \o <<";">>
                      ELSE IF ~(line[Len(line)] \in {"{", "(", "}", ",", ";"})
                              /\ ~StartsWith(line, <<"/", "/">>)
                      THEN line \o <<";">>
                      ELSE line
                 ELSE line
    IN  [line |-> line1,
         comment |-> IF EndsWith(line1, <<"*", "/">>) THEN FALSE ELSE comment1]

RECURSIVE add_endings_loop(_, _)
\* the `for idx, line in enumerate(lines)` loop
add_endings_loop(lines, comment) ==
    IF lines = <<>> THEN <<>>
    ELSE LET r == add_endings_line(Head(lines), comment)
         IN  <<r.line>> \o add_endings_loop(Tail(lines), r.comment)

\* PreProcesser.add_endings
add_endings(source_) ==
    Join(add_endings_loop(splitlines(source_), FALSE), <<"\n">>) \o <<"\n">>

RECURSIVE RunFrom(_, _, _)
\* the index of the last character of the run of `chars` that starts at s[i]
RunFrom(s, i, chars) ==
    IF i > Len(s) \/ s[i] \notin chars THEN i - 1 ELSE RunFrom(s, i + 1, chars)

\* the length of the run of characters of `chars` at the start of s
RunLen(s, chars) == RunFrom(s, 1, chars)

\* the length of the rest of the line at the start of s: the match of .*
LineLen(s) == RunLen(s, { s[j] : j \in 1..Len(s) } \ {"\n"})

\* (?!\w) after n characters of s
NotWordAt(s, n) == n >= Len(s) \/ s[n + 1] \notin IdentChar

\* a word of `words` at the start of s, followed by (?!\w); the regex
\* takes the first alternative that matches
word_match(s, words) ==
    IF \E i \in 1..Len(words) : StartsWith(s, words[i]) /\ NotWordAt(s, Len(words[i]))
    THEN Len(words[CHOOSE i \in 1..Len(words) :
                 /\ StartsWith(s, words[i]) /\ NotWordAt(s, Len(words[i]))
                 /\ \A j \in 1..(i - 1) :
                        ~(StartsWith(s, words[j]) /\ NotWordAt(s, Len(words[j])))])
    ELSE 0

EXEC_WORDS ==
    << <<"a","l","i","g","n">>, <<"a","n","c","h","o","r","e","d">>, <<"a","s">>,
       <<"a","t">>, <<"f","a","c","i","n","g">>, <<"i","f">>, <<"i","n">>,
       <<"p","o","s","i","t","i","o","n","e","d">>, <<"r","o","t","a","t","e","d">>,
       <<"u","n","l","e","s","s">>, <<"s","t","o","r","e">> >>

\* MINECRAFT["MCCMD"] = (kw1|kw2|...).*(?!\n): .* runs to the end of the
\* line; when a newline follows, (?!\n) makes it give the line's last
\* character back, and a keyword has to fit in what is left.  The length of
\* the match at the start of s, 0 for none
MCCMD_match(s) ==
    LET line == LineLen(s)
        stop == IF line = Len(s) THEN line ELSE line - 1
    IN  IF \E i \in 1..Len(MINECRAFT_KEYWORDS) :
              /\ StartsWith(s, MINECRAFT_KEYWORDS[i])
              /\ Len(MINECRAFT_KEYWORDS[i]) <= stop
        THEN stop ELSE 0

\* MINECRAFT["COMMENT"]: a block comment up to its first */, or //.*
COMMENT_match(s) ==
    IF StartsWith(s, <<"/", "*">>)
    THEN LET ends == { n \in 4..Len(s) : s[n - 1] = "*" /\ s[n] = "/" }
         IN  IF ends = {} THEN 0 ELSE CHOOSE n \in ends : \A m \in ends : n <= m
    ELSE IF StartsWith(s, <<"/", "/">>) THEN LineLen(s)
    ELSE 0

\* LITERALS["STRING"] = \"[^\"]*\"
STRING_match(s) ==
    IF s # <<>> /\ s[1] = "\""
    THEN LET body == RunLen(Tail(s), { s[j] : j \in 1..Len(s) } \ {"\""})
         IN  IF body + 2 <= Len(s) THEN body + 2 ELSE 0
    ELSE 0

\* IDENTIFIERS["IDENTIFIER"] = [_a-zA-Z][_a-zA-Z0-9]{0,31}
IDENTIFIER_match(s) ==
    IF s # <<>> /\ s[1] \in IdentStart
    THEN LET more == RunLen(Tail(s), IdentChar)
         IN  1 + (IF more > 31 THEN 31 ELSE more)
    ELSE 0

\* TOKENTYPES, in declaration order.  The operator patterns other than "="
\* and the FLOAT and BOOLEAN literals are left out: no text of Sources
\* holds a character that starts one of them outside a comment.
TOKENTYPES ==
    <<"EXEC", "COMMENT", "MCCMD", "SCORE", "FUNC", "FOR", "WHILE", "=", "INTEGER",
      "STRING", "(", ")", "{", "}", ",", ":", ";", "IDENTIFIER">>

\* the length of the match of pattern `name` at the start of s
token_match(name, s) ==
    CASE name = "EXEC" -> word_match(s, EXEC_WORDS)
      [] name = "COMMENT" -> COMMENT_match(s)
      [] name = "MCCMD" -> MCCMD_match(s)
      [] name = "SCORE" -> word_match(s, << <<"s","c","o","r","e">> >>)
      [] name = "FUNC" -> word_match(s, << <<"f","u","n","c">> >>)
      [] name = "FOR" -> word_match(s, << <<"f","o","r">> >>)
      [] name = "WHILE" -> word_match(s, << <<"w","h","i","l","e">> >>)
      [] name = "INTEGER" -> RunLen(s, Range(DigitChars))
      [] name = "STRING" -> STRING_match(s)
      [] name = "IDENTIFIER" -> IDENTIFIER_match(s)
      [] OTHER -> IF s # <<>> /\ s[1] = name THEN 1 ELSE 0

\* the lexer's ignore pattern [ \n\t\r\f\v]+
WHITESPACE == {" ", "\n", "\t", "\r", "\f"}

RECURSIVE Lexer_lex(_)
\* Lexer.lex: whitespace is skipped; the longest match wins and a tie goes
\* to the earlier pattern; [error, tokens]
Lexer_lex(s) ==
    IF s = <<>> THEN [error |-> FALSE, tokens |-> <<>>]
    ELSE IF s[1] \in WHITESPACE THEN Lexer_lex(DropFirst(s, RunLen(s, WHITESPACE)))
    ELSE LET lens == [i \in 1..Len(TOKENTYPES) |-> token_match(TOKENTYPES[i], s)]
             best == CHOOSE i \in 1..Len(TOKENTYPES) :
                 /\ \A j \in 1..Len(TOKENTYPES) : lens[j] <= lens[i]
                 /\ \A j \in 1..(i - 1) : lens[j] < lens[i]
             n == lens[best]
         IN  IF n = 0 THEN [error |-> TRUE, tokens |-> <<>>]
             ELSE LET rest == Lexer_lex(DropFirst(s, n))
                  IN  [rest EXCEPT !.tokens =
                           <<[name |-> TOKENTYPES[best], value |-> SubSeq(s, 1, n)]>> \o @]

\* error_handler: the parser met `tokens` where no production goes on
error_handler(tokens) ==
    [ok |-> FALSE, node |-> None, rest |-> tokens,
     error |-> IF tokens = <<>> THEN Error("UnexpectedEndError") ELSE Error("SynatxError")]

Parsed(node, rest) == [ok |-> TRUE, node |-> node, rest |-> rest, error |-> Error("none")]

IsTok(tokens, i, name) == i <= Len(tokens) /\ tokens[i].name = name

\* stmt : mccmd ;   with mccmd : MCCMD,   and   stmt : COMMENT
parse_stmt(tokens) ==
    IF IsTok(tokens, 1, "MCCMD")
    THEN IF IsTok(tokens, 2, ";")
         THEN Parsed(McCmdNode(tokens[1].value), DropFirst(tokens, 2))
         ELSE error_handler(DropFirst(tokens, 1))
    ELSE IF IsTok(tokens, 1, "COMMENT")
    THEN Parsed(CommentNode(tokens[1].value), DropFirst(tokens, 1))
    ELSE error_handler(tokens)

RECURSIVE parse_block(_, _)
\* block : stmt | block stmt, up to the closing brace; node is the list
parse_block(tokens, block) ==
    IF block # <<>> /\ IsTok(tokens, 1, "}") THEN Parsed(BlockNode(block), tokens)
    ELSE LET s == parse_stmt(tokens)
         IN  IF s.ok THEN parse_block(s.rest, Append(block, s.node)) ELSE s

\* func : FUNC STRING { block }
parse_func(tokens) ==
    IF ~IsTok(tokens, 2, "STRING") THEN error_handler(DropFirst(tokens, 1))
    ELSE IF ~IsTok(tokens, 3, "{") THEN error_handler(DropFirst(tokens, 2))
    ELSE LET b == parse_block(DropFirst(tokens, 3), <<>>)
         IN  IF b.ok
             THEN Parsed(FuncNode(tokens[2].value, b.node), DropFirst(b.rest, 1))
             ELSE b

RECURSIVE parse_stmtList(_, _)
\* program : stmtList;  stmtList : stmtFull | stmtList stmtFull;
\* stmtFull : stmt | func
parse_stmtList(tokens, block) ==
    IF tokens = <<>>
    THEN IF block = <<>> THEN error_handler(tokens) ELSE Parsed(block, tokens)
    ELSE LET s == IF IsTok(tokens, 1, "FUNC") THEN parse_func(tokens)
                  ELSE parse_stmt(tokens)
         IN  IF s.ok THEN parse_stmtList(s.rest, Append(block, s.node)) ELSE s

\* Parser.parse
Parser_parse(tokens) == parse_stmtList(tokens, <<>>)

(***************************************************************************)
(* The programs the model interprets: every sequence of one to MaxStmts    *)
(* statements of StmtPool, as the parser would hand them to ProgramNode.   *)
(***************************************************************************)
\* execute clauses EXEC ( STRING ): keyword and quoted target
Clauses == { <<Lit.as, Lit.q_a>>, <<Lit.at, Lit.q_s>> }

\* group-specifier : EXEC ( STRING )
group_spec(c) == GroupSpecNode(c[1], c[2])
\* group-specifier : group-specifier , EXEC ( STRING )
group_spec_rec(p0, c) == GroupSpecNode_append(p0, GroupSpecNode(c[1], c[2]))

\* the statement lists of the blocks
Body ==
    [ cmd |->
          <<McCmdNode(Lit.say_hi)>>,
      mix |->
          <<McCmdNode(Lit.say_hi), CommentNode(Lit.comment),
            VariableAssignNode(Lit.s, IntegerNode(1))>>,
      err |->
          <<VariableAssignNode(Lit.x, VariableAccessNode(Lit.y))>>,
      all |->
          <<McCmdNode(Lit.say_hi),
            GroupNode(group_spec(<<Lit.at, Lit.q_s>>), BlockNode(<<McCmdNode(Lit.say_hi)>>)),
            CommentNode(Lit.comment)>>,
      for |->
          <<VariableAssignNode(Lit.s, VariableAccessNode(Lit.i)), McCmdNode(Lit.say_hi)>>,
      tpl |->
          <<McCmdNode(Lit.say_tpl)>>,
      inc |->
          <<VariableIncrementNode(Lit.i), McCmdNode(Lit.say_hi)>>,
      set |->
          <<VariableAssignNode(Lit.x, IntegerNode(1))>> ]

Blocks == { Body.cmd, Body.mix, Body.err }

SimpleStmts ==
    { McCmdNode(Lit.say_hi), McCmdNode(Lit.say_tpl), CommentNode(Lit.comment),
      VariableAssignNode(Lit.i, IntegerNode(0)),
      VariableAssignNode(Lit.x, VariableAccessNode(Lit.y)),
      VariableAssignNode(Lit.s, VariableAccessNode(Lit.i)),
      VariableIncrementNode(Lit.i),
      ScoreDeclNode(Lit.s, Lit.obj, Lit.s),
      ScoreInitNode(ScoreDeclNode(Lit.x, Lit.obj, Lit.x), IntegerNode(5)),
      ScoreInitNode(ScoreDeclNode(Lit.s, Lit.obj, Lit.x), IntegerNode(5)),
      VariableAssignNode(Lit.x, IntegerNode(1)),
      VariableAssignNode(Lit.s, StringNode(Lit.q_f)),
      VariableAssignNode(Lit.s, VariableAccessNode(Lit.s)),
      VariableAssignNode(Lit.x, BinaryDivNode(IntegerNode(4), IntegerNode(2))),
      VariableAssignNode(Lit.x, BinaryDivNode(IntegerNode(7), IntegerNode(2))),
      VariableAssignNode(Lit.s, BinaryAddNode(VariableAccessNode(Lit.s),
                                              VariableAccessNode(Lit.s))),
      ScoreInitNode(ScoreDeclNode(Lit.x, Lit.obj, Lit.x), VariableAccessNode(Lit.x)),
      ScoreInitNode(ScoreDeclNode(Lit.s, Lit.obj, Lit.s), VariableAccessNode(Lit.y)) }

\* A { x },  A { B { x } }  and  A, B { x }
GroupStmts ==
    { GroupNode(group_spec(<<Lit.as, Lit.q_a>>), BlockNode(Body.all)) }
    \cup { GroupNode(group_spec(a), BlockNode(x)) : a \in Clauses, x \in Blocks }
    \cup { GroupNode(group_spec(a), BlockNode(<<GroupNode(group_spec(b), BlockNode(x))>>)) :
             a \in Clauses, b \in Clauses, x \in Blocks }
    \cup { GroupNode(group_spec_rec(group_spec(a), b), BlockNode(x)) :
             a \in Clauses, b \in Clauses, x \in Blocks }

FuncStmts == { FuncNode(Lit.q_f, BlockNode(x)) : x \in {Body.cmd, Body.err} }

\* for (i = 0; i < n; i++) { s = i; say hi }
CountingFor(n) ==
    ForNode(VariableAssignNode(Lit.i, IntegerNode(0)),
            BinaryLENode(VariableAccessNode(Lit.i), IntegerNode(n)),
            VariableIncrementNode(Lit.i), BlockNode(Body.for))

\* the counting loops, one loop that steps the wrong way, one with a template,
\* one with a comment
ForStmts ==
    { CountingFor(n) : n \in 0..MaxN }
    \cup { ForNode(VariableAssignNode(Lit.i, IntegerNode(0)),
                   BinaryLENode(VariableAccessNode(Lit.i), IntegerNode(1)),
                   VariableDecrementNode(Lit.i), BlockNode(Body.cmd)),
           ForNode(VariableAssignNode(Lit.i, IntegerNode(0)),
                   BinaryLENode(VariableAccessNode(Lit.i), IntegerNode(MaxN)),
                   VariableIncrementNode(Lit.i), BlockNode(Body.tpl)),
           ForNode(VariableAssignNode(Lit.i, IntegerNode(0)),
                   BinaryLENode(VariableAccessNode(Lit.i), IntegerNode(MaxN)),
                   VariableIncrementNode(Lit.i), BlockNode(Body.mix)) }

WhileStmts ==
    { WhileNode(BinaryLENode(VariableAccessNode(Lit.i), IntegerNode(MaxN)),
                BlockNode(Body.inc)),
      WhileNode(BinaryLENode(VariableAccessNode(Lit.i), IntegerNode(1)),
                BlockNode(Body.cmd)),
      WhileNode(BooleanNode(TRUE), BlockNode(Body.set)),
      WhileNode(BooleanNode(FALSE), BlockNode(Body.cmd)) }

StmtPool == SimpleStmts \cup GroupStmts \cup FuncStmts \cup ForStmts \cup WhileStmts

Programs == UNION { [1..n -> StmtPool] : n \in 1..MaxStmts }

\* each statement alone, and each while loop after  i = 0
LivePrograms ==
    { <<x>> : x \in StmtPool }
    \cup { <<VariableAssignNode(Lit.i, IntegerNode(0)), w>> : w \in WhileStmts }

(***************************************************************************)
(* Compiler.compile from `context = Context(inFile, outFile, source)` on:  *)
(* ProgramNode.interpret is the top-level BlockNode.interpret, one action  *)
(* per statement; a top-level for or while loop takes one action per test  *)
(* of its condition and one per run of its body.                           *)
(***************************************************************************)
InitState == [ctx |-> Context(Lit.out), files |-> EmptyMap, nodes |-> EmptyMap]

\* Outside watch mode (`msl compile`) no handler exists
NoWatch == <<>>

\* the state compile is in when ProgramNode.interpret starts on one of
\* `progs`, with one of outFiles as outFile
Start(progs, outFiles) ==
    /\ prog \in progs
    /\ pc = "block"
    /\ idx = 1
    /\ \E outFile \in outFiles : st = [InitState EXCEPT !.ctx = Context(outFile)]
    /\ commands = <<>>
    /\ loopCmds = <<>>
    /\ cond = None
    /\ iters = 0
    /\ outcome = "running"
    /\ err = Error("none")
    /\ parts = <<>>
    /\ preSt = st
    /\ source = <<>>
    /\ lexed = <<>>
    /\ earlier = <<>>
    /\ input = <<>>
    /\ watch = NoWatch

Init == Start(Programs, {Lit.out})

\* a call returned an error or raised: compile returns without writing
Abort(r) ==
    /\ pc' = "done"
    /\ outcome' = r.status
    /\ err' = r.error
    /\ st' = r.st
    /\ preSt' = st
    /\ UNCHANGED <<prog, idx, commands, loopCmds, cond, iters, parts, source, lexed,
                   earlier, input, watch>>

\* BlockNode.interpret went once round its loop and its child gave `value`
Collected(value, s) ==
    /\ commands' = BlockCollect(commands, value)
    /\ idx' = idx + 1
    /\ st' = s
    /\ preSt' = st
    /\ parts' = Append(parts, value)
    /\ pc' = "block"
    /\ UNCHANGED <<prog, outcome, err, source, lexed, earlier, input, watch>>

AtStmt(kinds) == pc = "block" /\ idx <= Len(prog) /\ prog[idx].kind \in kinds

\* one turn of BlockNode.interpret's loop on a child of one of `kinds`
BlockStep(kinds) ==
    /\ AtStmt(kinds)
    /\ \E r \in {Interp(prog[idx], <<idx>>, st)} :
          IF r.status # "ok" THEN Abort(r)
          ELSE Collected(r.value, r.st) /\ UNCHANGED <<loopCmds, cond, iters>>

InterpMcCmd == BlockStep({"McCmd"})
InterpScore == BlockStep({"ScoreDecl", "ScoreInit"})
InterpComment == BlockStep({"Comment"})
InterpAssgn == BlockStep({"VariableAssign", "VariableIncrement", "VariableDecrement"})
InterpGroup == BlockStep({"Group"})
InterpFunc == BlockStep({"Func"})

\* ForCollect keeping the lines of the latest iteration only
ForCollect_last(commands_, value) ==
    IF value.k \in {"MinecraftComment", "ExecuteCommand", "MinecraftCommand"}
    THEN <<value>>
    ELSE IF value.k = "MinecraftCommandList"
    THEN value.v
    ELSE commands_

\* ForNode.interpret, lines 965-969
ForCollect(commands_, value) ==
    IF value.k \in {"MinecraftComment", "ExecuteCommand", "MinecraftCommand"}
    THEN Append(commands_, value)
    ELSE IF value.k = "MinecraftCommandList"
    THEN commands_ \o value.v
    ELSE commands_

\* WhileNode.interpret, lines 1012-1016
WhileCollect(commands_, value) ==
    IF value.k \in {"MinecraftComment", "ExecuteCommand", "MinecraftCommand"}
    THEN Append(commands_, value)
    ELSE IF value.k = "MinecraftCommandList"
    THEN commands_ \o value.v
    ELSE commands_

\* the loop is entered with its first condition c
LoopEnter(at, c) ==
    /\ pc' = at
    /\ cond' = c.value
    /\ loopCmds' = <<>>
    /\ iters' = 0
    /\ st' = c.st
    /\ preSt' = st
    /\ UNCHANGED <<prog, idx, commands, outcome, err, parts, source, lexed, earlier, input, watch>>

\* ForNode.interpret, lines 947-957: assgn, then the first condition
ForEnter ==
    /\ AtStmt({"For"})
    /\ \E a \in {Interp(prog[idx].assgn, <<idx>>, st)} :
          IF a.status # "ok" THEN Abort(a)
          ELSE \E c \in {Interp(prog[idx].condition, <<idx>>, a.st)} :
                  IF c.status # "ok" THEN Abort(c) ELSE LoopEnter("for", c)

\* `while condition:` of ForNode.interpret and of WhileNode.interpret found
\* truthy: the body runs
LoopTest ==
    /\ pc \in {"for", "while"}
    /\ Truthy(cond)
    /\ iters < MaxIter
    /\ pc' = IF pc = "for" THEN "forBody" ELSE "whileBody"
    /\ UNCHANGED <<prog, idx, st, commands, loopCmds, cond, iters, outcome, err,
                   parts, preSt, source, lexed, earlier, input, watch>>

\* the model follows a loop for MaxIter state-changing iterations only
LoopCut ==
    /\ pc \in {"for", "while"}
    /\ Truthy(cond)
    /\ iters >= MaxIter
    /\ pc' = "done"
    /\ outcome' = "cut"
    /\ UNCHANGED <<prog, idx, st, commands, loopCmds, cond, iters, err, parts,
                   preSt, source, lexed, earlier, input, watch>>

\* `while condition:` found falsy: return result.success(commands)
LoopExit ==
    /\ pc \in {"for", "while"}
    /\ ~Truthy(cond)
    /\ Collected(MinecraftCommandList(loopCmds), st)
    /\ loopCmds' = <<>>
    /\ cond' = None
    /\ iters' = 0

\* the loop went round: its state, and whether anything changed
LoopNext(cmds, c, s) ==
    /\ loopCmds' = cmds
    /\ cond' = c
    /\ st' = s
    /\ iters' = IF <<cmds, c, s>> = <<loopCmds, cond, st>> THEN iters ELSE iters + 1
    /\ UNCHANGED <<prog, idx, commands, outcome, err, parts, preSt, source, lexed,
                   earlier, input, watch>>

\* ForNode.interpret, lines 960-979: body, increment, condition
ForBody ==
    /\ pc = "forBody"
    /\ \E b \in {Interp(prog[idx].body, <<idx>>, st)} :
          IF b.status # "ok" THEN Abort(b)
          ELSE \E i \in {Interp(prog[idx].increment, <<idx>>, b.st)} :
                  IF i.status # "ok" THEN Abort(i)
                  ELSE \E c \in {Interp(prog[idx].condition, <<idx>>, i.st)} :
                          IF c.status # "ok" THEN Abort(c)
                          ELSE /\ pc' = "for"
                               /\ LoopNext(ForCollect(loopCmds, b.value),
                                           c.value, c.st)

\* WhileNode.interpret, lines 999-1004: the first condition
WhileEnter ==
    /\ AtStmt({"While"})
    /\ \E c \in {Interp(prog[idx].condition, <<idx>>, st)} :
          IF c.status # "ok" THEN Abort(c) ELSE LoopEnter("while", c)

\* WhileNode.interpret, lines 1007-1021: body, condition
WhileBody ==
    /\ pc = "whileBody"
    /\ \E b \in {Interp(prog[idx].body, <<idx>>, st)} :
          IF b.status # "ok" THEN Abort(b)
          ELSE \E c \in {Interp(prog[idx].condition, <<idx>>, b.st)} :
                  IF c.status # "ok" THEN Abort(c)
                  ELSE /\ pc' = "while"
                       /\ LoopNext(WhileCollect(loopCmds, b.value), c.value, c.st)

\* Compiler.compile, lines 114-122: the block succeeded, write outFile
Write ==
    /\ pc = "block"
    /\ idx > Len(prog)
    /\ pc' = "done"
    /\ outcome' = "ok"
    /\ st' = [st EXCEPT !.files = Put(@, st.ctx.dstFile, ListToStr(commands))]
    /\ UNCHANGED <<prog, idx, commands, loopCmds, cond, iters, err, parts, preSt,
                   source, lexed, earlier, input, watch>>

Next ==
    \/ InterpMcCmd
    \/ InterpScore
    \/ InterpComment
    \/ InterpAssgn
    \/ InterpGroup
    \/ InterpFunc
    \/ ForEnter
    \/ ForBody
    \/ WhileEnter
    \/ WhileBody
    \/ LoopTest
    \/ LoopExit
    \/ LoopCut
    \/ Write

Spec == Init /\ [][Next]_vars

\* a loop that has been entered keeps running: interpret is one synchronous
\* call, nothing suspends it between a test of the condition and the body
LoopStep == LoopTest \/ LoopExit \/ LoopCut \/ ForBody \/ WhileBody

SpecLive == Start(LivePrograms, {Lit.out}) /\ [][Next]_vars /\ WF_vars(LoopStep)

\* compile with outFile main.mcfunction or mc.mcfunction
SpecOut == Start(LivePrograms, {Lit.out, Lit.mc}) /\ [][Next]_vars

(***************************************************************************)
(* Compiler.compile called again on the same source.  compile is a static  *)
(* method that builds its Lexer, Parser, AST and Context anew (lines       *)
(* 97-111); what an earlier call leaves behind is the files it wrote.      *)
(***************************************************************************)
\* Recompile handing the earlier call's Context to the new one
Recompile_keepContext ==
    /\ pc = "done"
    /\ earlier = <<>>
    /\ outcome \in {"ok", "error", "raise"}
    /\ earlier' = <<[outcome |-> outcome, err |-> err, files |-> st.files]>>
    /\ pc' = "block"
    /\ idx' = 1
    /\ st' = [st EXCEPT !.nodes = EmptyMap]
    /\ preSt' = st'
    /\ commands' = <<>>
    /\ loopCmds' = <<>>
    /\ cond' = None
    /\ iters' = 0
    /\ outcome' = "running"
    /\ err' = Error("none")
    /\ parts' = <<>>
    /\ UNCHANGED <<prog, source, lexed, input, watch>>

\* the caller calls compile again once it has returned or raised: the same
\* text parses to the same tree, with new nodes and a new Context
Recompile ==
    /\ pc = "done"
    /\ earlier = <<>>
    /\ outcome \in {"ok", "error", "raise"}
    /\ earlier' = <<[outcome |-> outcome, err |-> err, files |-> st.files]>>
    /\ pc' = "block"
    /\ idx' = 1
    /\ st' = [ctx |-> Context(st.ctx.dstFile), files |-> st.files,
                nodes |-> EmptyMap]
    /\ preSt' = st'
    /\ commands' = <<>>
    /\ loopCmds' = <<>>
    /\ cond' = None
    /\ iters' = 0
    /\ outcome' = "running"
    /\ err' = Error("none")
    /\ parts' = <<>>
    /\ UNCHANGED <<prog, source, lexed, input, watch>>

NextTwice == Next \/ Recompile

SpecTwice == Init /\ [][NextTwice]_vars

(***************************************************************************)
(* Compiler.compile from the source text on, lines 87-109: the texts are   *)
(* up to MaxLines lines of FrontLines.                                     *)
(***************************************************************************)
\* the lines:  say hello  |  say outside;  |  // c
\*   func "helper" {  |  }  |  func "helper" { say inside; }  |  include <lib>
FrontLines ==
    { <<"s","a","y"," ","h","e","l","l","o">>,
      <<"s","a","y"," ","o","u","t","s","i","d","e",";">>,
      <<"/","/"," ","c">>,
      <<"f","u","n","c"," ","\"","h","e","l","p","e","r","\""," ","{">>,
      <<"}">>,
      <<"f","u","n","c"," ","\"","h","e","l","p","e","r","\""," ","{"," ","s","a","y"," ","i","n","s","i","d","e",";"," ","}">>,
      <<"i","n","c","l","u","d","e"," ","<","l","i","b",">">> }

Sources ==
    { <<>> } \cup { Join(ls, <<"\n">>) :
                      ls \in UNION { [1..n -> FrontLines] : n \in 1..MaxLines } }

InitFront(texts) ==
    /\ source \in texts
    /\ pc = "source"
    /\ prog = <<>>
    /\ lexed = <<>>
    /\ idx = 1
    /\ st = InitState
    /\ preSt = InitState
    /\ commands = <<>>
    /\ loopCmds = <<>>
    /\ cond = None
    /\ iters = 0
    /\ outcome = "running"
    /\ err = Error("none")
    /\ parts = <<>>
    /\ earlier = <<>>
    /\ input = source
    /\ watch = NoWatch

\* BaseError.raiseError: the diagnostic is printed and sys.exit() ends compile
Exit(error) ==
    /\ pc' = "done"
    /\ outcome' = "exit"
    /\ err' = error
    /\ UNCHANGED <<prog, idx, st, commands, loopCmds, cond, iters, parts, preSt,
                   source, lexed, earlier, input, watch>>

\* compile, line 90: `if len(source) > 0` fails, return 0
CompileEmpty ==
    /\ pc = "source"
    /\ Len(source) = 0
    /\ pc' = "done"
    /\ outcome' = "ok"
    /\ UNCHANGED <<prog, idx, st, commands, loopCmds, cond, iters, err, parts,
                   preSt, source, lexed, earlier, input, watch>>

\* compile, lines 92-94: include, then add_endings
Preprocess ==
    /\ pc = "source"
    /\ Len(source) > 0
    /\ source' = add_endings(include(source))
    /\ pc' = "lex"
    /\ UNCHANGED <<prog, idx, st, commands, loopCmds, cond, iters, outcome, err,
                   parts, preSt, lexed, earlier, input, watch>>

\* compile, lines 97-98: lexer.lex(source)
LexSource ==
    /\ pc = "lex"
    /\ \E r \in {Lexer_lex(source)} :
          IF r.error THEN Exit(Error("SynatxError"))
          ELSE /\ lexed' = r.tokens
               /\ pc' = "parse"
               /\ UNCHANGED <<prog, idx, st, commands, loopCmds, cond, iters,
                              outcome, err, parts, preSt, source,
                              earlier, input, watch>>

\* compile, lines 101-109: parser.parse(tokens, state)
ParseTokens ==
    /\ pc = "parse"
    /\ \E r \in {Parser_parse(lexed)} :
          IF ~r.ok THEN Exit(r.error)
          ELSE /\ prog' = r.node
               /\ pc' = "block"
               /\ UNCHANGED <<idx, st, commands, loopCmds, cond, iters, outcome,
                              err, parts, preSt, source, lexed,
                              earlier, input, watch>>

NextFront ==
    \/ CompileEmpty
    \/ Preprocess
    \/ LexSource
    \/ ParseTokens
    \/ InterpMcCmd
    \/ InterpComment
    \/ InterpFunc
    \/ Write

SpecFront == InitFront(Sources) /\ [][NextFront]_vars

(***************************************************************************)
(* PreProcesser alone (src/compiler/preprocesser.py, called from compile   *)
(* lines 92-94): the texts are up to MaxLines lines of PreLines, among     *)
(* them block comments, statements that begin with the letters of a        *)
(* command name, and include directives for the files lib (say lib), inc   *)
(* (include <lib>) and no (which does not exist).                          *)
(***************************************************************************)
\* the lines:  say hi  |  x = 1;  |  // c  |  /* a  |  b */  |  /* c */  |  }
\*   (empty)  |  while (i < 3) {  |  time_left = 5
\*   include <lib>  |  include <no>  |  include <inc>
PreLines ==
    { <<"s","a","y"," ","h","i">>,
      <<"x"," ","="," ","1",";">>,
      <<"/","/"," ","c">>,
      <<"/","*"," ","a">>,
      <<"b"," ","*","/">>,
      <<"/","*"," ","c"," ","*","/">>,
      <<"}">>,
      <<>>,
      <<"w","h","i","l","e"," ","(","i"," ","<"," ","3",")"," ","{">>,
      <<"t","i","m","e","_","l","e","f","t"," ","="," ","5">>,
      <<"i","n","c","l","u","d","e"," ","<","l","i","b",">">>,
      <<"i","n","c","l","u","d","e"," ","<","n","o",">">>,
      <<"i","n","c","l","u","d","e"," ","<","i","n","c",">">> }

PreSources ==
    { <<>> } \cup { Join(ls, <<"\n">>) :
                      ls \in UNION { [1..n -> PreLines] : n \in 1..MaxLines } }

NextPre == CompileEmpty \/ Preprocess

SpecPre == InitFront(PreSources) /\ [][NextPre]_vars



(***************************************************************************)
(* Watch mode (`msl run`, src/msl/__main__.py lines 292-311): an Observer  *)
(* calls the handler's on_modified for every change under the source       *)
(* directory, one call after the other on its one dispatching thread, and  *)
(* on_modified compiles before it returns.  The clock counts halves of a   *)
(* second.  watch.log is history: for every call of on_modified the time   *)
(* of the call, the time since last_modified, and whether it compiled.     *)
(***************************************************************************)
Second == 2

\* FileAutoCompiler.on_modified, line 107: time.time() - self.last_modified > 1
FileAutoCompiler_accepts(t, last_modified) == t - last_modified > Second

\* FileHandler.on_modified with a window of half a second
FileHandler_accepts_half(t, last_modified) == ~(t - last_modified < 1)

\* FileHandler.on_modified, lines 27-30: returns when
\* time.time() - self.last_modified < 1
FileHandler_accepts(t, last_modified) == ~(t - last_modified < Second)

\* __init__ of either handler: last_modified = time.time(); no file has
\* changed yet and nothing is being compiled
InitWatch ==
    /\ \E handler \in {"FileAutoCompiler", "FileHandler"} :
          watch = [handler |-> handler, now |-> 0, last_modified |-> 0,
                   queued |-> 0, sent |-> 0, log |-> <<>>]
    /\ prog = <<McCmdNode(Lit.say_hi)>>
    /\ pc = "done"
    /\ idx = 1
    /\ st = InitState
    /\ preSt = InitState
    /\ commands = <<>>
    /\ loopCmds = <<>>
    /\ cond = None
    /\ iters = 0
    /\ outcome = "running"
    /\ err = Error("none")
    /\ parts = <<>>
    /\ source = <<>>
    /\ lexed = <<>>
    /\ earlier = <<>>
    /\ input = <<>>

\* half a second passes
Tick ==
    /\ watch.now < MaxTime
    /\ watch' = [watch EXCEPT !.now = @ + 1]
    /\ UNCHANGED <<prog, pc, idx, st, commands, loopCmds, cond, iters, outcome, err,
                   parts, preSt, source, lexed, earlier, input>>

\* a file under the watched directory changes: the Observer queues an event
Modify ==
    /\ watch.sent < MaxEvents
    /\ watch' = [watch EXCEPT !.queued = @ + 1, !.sent = @ + 1]
    /\ UNCHANGED <<prog, pc, idx, st, commands, loopCmds, cond, iters, outcome, err,
                   parts, preSt, source, lexed, earlier, input>>

\* on_modified of the handler in use: the call starts a compile, with a new
\* tree and a new Context, or returns at once
OnModified ==
    /\ watch.queued > 0
    /\ pc = "done"
    /\ LET since == watch.now - watch.last_modified
           handled == [watch EXCEPT !.queued = @ - 1]
       IN  IF (IF watch.handler = "FileHandler"
               THEN FileHandler_accepts(watch.now, watch.last_modified)
               ELSE FileAutoCompiler_accepts(watch.now, watch.last_modified))
           THEN /\ watch' = [handled EXCEPT
                                !.last_modified = watch.now,
                                !.log = Append(@, [at |-> watch.now, since |-> since,
                                                   compiled |-> TRUE])]
                /\ pc' = "block"
                /\ idx' = 1
                /\ st' = [ctx |-> Context(st.ctx.dstFile), files |-> st.files,
                          nodes |-> EmptyMap]
                /\ preSt' = st'
                /\ commands' = <<>>
                /\ parts' = <<>>
                /\ outcome' = "running"
                /\ UNCHANGED <<prog, loopCmds, cond, iters, err, source, lexed,
                               earlier, input>>
           ELSE /\ watch' = [handled EXCEPT
                                !.log = Append(@, [at |-> watch.now, since |-> since,
                                                   compiled |-> FALSE])]
                /\ UNCHANGED <<prog, pc, idx, st, commands, loopCmds, cond, iters,
                               outcome, err, parts, preSt, source, lexed, earlier,
                               input>>

\* the steps of the Observer's thread
WatchStep == OnModified \/ InterpMcCmd \/ Write

NextWatch == Tick \/ Modify \/ OnModified \/ InterpMcCmd \/ Write

SpecWatch ==
    InitWatch /\ [][NextWatch]_vars /\ WF_vars(WatchStep) /\ WF_vars(Tick)


(***************************************************************************)
(* Properties.  Last is the top-level statement that finished last, and    *)
(* preSt the state it started in.                                          *)
(***************************************************************************)
Last == Len(parts)

\* the top-level statement that finished last is of kind `kind`
Finished(kind) == pc = "block" /\ parts # <<>> /\ prog[Last].kind = kind

\* a top-level statement of kind `kind` returned an error or raised
Aborted(kind) ==
    pc = "done" /\ outcome \in {"error", "raise"} /\ prog[idx].kind = kind

Emitted == {"MinecraftCommand", "ExecuteCommand", "MinecraftComment"}

\* the list the body of the group that finished last evaluates to
GroupBody == Interp(prog[Last].body, <<Last>>, preSt).value.v

\* C1: GroupNode.interpret with prefix P over a body that gives the list L
\* returns a list of the same length in which, position by position,
\* Command(c) became ExecuteCommand("P run c"), ExecuteCommand(t) became
\* ExecuteCommand("P t") and a Comment stayed as it was.
C1_GroupPositionWise ==
    Finished("Group") =>
        LET P == prog[Last].specifier.value
            L == GroupBody
            R == parts[Last].v
        IN  /\ Len(R) = Len(L)
            /\ \A i \in 1..Len(L) :
                  /\ L[i].k = "MinecraftCommand" =>
                        R[i] = ExecuteCommand(P \o <<" ","r","u","n"," ">> \o L[i].v)
                  /\ L[i].k = "ExecuteCommand" =>
                        R[i] = ExecuteCommand(P \o <<" ">> \o L[i].v)
                  /\ L[i].k = "MinecraftComment" => R[i] = L[i]

\* a group finished whose body gave a command, an execute command and a comment
C1_Witness ==
    /\ Finished("Group")
    /\ \E i, j, k \in 1..Len(GroupBody) :
          /\ GroupBody[i].k = "MinecraftCommand"
          /\ GroupBody[j].k = "ExecuteCommand"
          /\ GroupBody[k].k = "MinecraftComment"

\* node is  A { B { x } }
IsNested(node) ==
    /\ node.kind = "Group"
    /\ Len(node.body.block) = 1
    /\ node.body.block[1].kind = "Group"

\* A,B { x }  for the node  A { B { x } },  as group_spec_rec builds it
Merged(node) ==
    GroupNode(GroupSpecNode_append(node.specifier, node.body.block[1].specifier),
              node.body.block[1].body)

\* C2: the nested groups A { B { x } } give exactly the lines of the single
\* group A,B { x }; when x fails, both fail alike.
C2_GroupComposition ==
    /\ (Finished("Group") /\ IsNested(prog[Last])) =>
          LET m == Interp(Merged(prog[Last]), <<Last>>, preSt)
          IN  /\ m.status = "ok"
              /\ ListToStr(parts[Last].v) = ListToStr(m.value.v)
    /\ (Aborted("Group") /\ IsNested(prog[idx])) =>
          LET m == Interp(Merged(prog[idx]), <<idx>>, preSt)
          IN  m.status = outcome /\ m.error = err

\* nested groups finished and gave at least two lines
C2_Witness ==
    /\ Finished("Group")
    /\ IsNested(prog[Last])
    /\ Len(parts[Last].v) >= 2

RECURSIVE Flatten(_)
\* the lines of a sequence of statement values, in order
Flatten(values) ==
    IF values = <<>> THEN <<>>
    ELSE (IF Head(values).k = "MinecraftCommandList" THEN Head(values).v
          ELSE IF Head(values).k \in Emitted THEN <<Head(values)>>
          ELSE <<>>) \o Flatten(Tail(values))

\* C3: a block's list holds the lines of its statements in source order,
\* and a group's list holds, line for line and in the same order, the lines
\* of the block it wraps: none dropped, none twice.
C3_SourceOrder ==
    /\ commands = Flatten(parts)
    /\ Finished("Group") =>
          /\ Len(parts[Last].v) = Len(GroupBody)
          /\ \A i \in 1..Len(GroupBody) :
                EndsWith(parts[Last].v[i].v, GroupBody[i].v)

\* two statements finished, a comment and then a group of several lines
C3_Witness ==
    /\ Finished("Group")
    /\ Last = 2
    /\ parts[1].k = "MinecraftComment"
    /\ Len(parts[2].v) >= 3
    /\ Len(commands) = 1 + Len(parts[2].v)

IsFlat(list) == \A i \in 1..Len(list) : list[i].k \in Emitted

\* C4: every command list produced (by the top-level block, a nested block,
\* a group, a for loop or a while loop) is flat and holds only Command,
\* ExecuteCommand and Comment elements.
C4_FlatLists ==
    /\ IsFlat(commands)
    /\ IsFlat(loopCmds)
    /\ \A i \in 1..Len(parts) :
          parts[i].k = "MinecraftCommandList" => IsFlat(parts[i].v)
    /\ Finished("Group") => IsFlat(GroupBody)

\* a statement that gave Null and a loop that gave a list of several lines
C4_Witness ==
    /\ Finished("For")
    /\ Last = 2
    /\ parts[1] = NULL
    /\ Len(parts[2].v) >= 2
    /\ commands = parts[2].v

\* C5: when interpretation fails with a diagnostic, compile has written no
\* file: neither the output file nor the file of an earlier func.
C5_NoPartialEmission ==
    (pc = "done" /\ outcome = "error") => st.files = EmptyMap

\* C6: a raw command without templates is emitted as its text without the
\* statement terminator: the output file holds no ";".
C6_NoTerminator ==
    (pc = "done" /\ outcome = "ok" /\ Lit.out \in DOMAIN st.files) =>
        \A i \in 1..Len(st.files[Lit.out]) : st.files[Lit.out][i] # ";"

RECURSIVE Substituted(_, _)
\* string with every $(name) replaced by the string form of the variable
\* that getVariable finds, or by the bare name when there is none
Substituted(string, ctx) ==
    IF string = <<>> THEN <<>>
    ELSE IF REGEX_match(string) = 0
    THEN <<Head(string)>> \o Substituted(Tail(string), ctx)
    ELSE LET m == REGEX_match(string)
             name == SubSeq(string, 3, m - 1)
         IN  (IF getVariable(ctx, name) # None
              THEN PyStr(getVariable(ctx, name)) ELSE name)
             \o Substituted(DropFirst(string, m), ctx)

\* C7: interpreting a raw command gives the command with every $(name)
\* substituted, and does not fail because a template is present.
C7_TemplateSubstitution ==
    /\ ~Aborted("McCmd")
    /\ Finished("McCmd") =>
          parts[Last] = MinecraftCommand(Substituted(prog[Last].value, preSt.ctx))

\* C8: the pass loop of every raw command interpreted so far ended at a
\* fixed point (success, the pass counter back at 0) or after MAX_REC_LIMIT
\* passes with the max-recursion diagnostic.
C8_PassesToFixedPoint ==
    \A p \in DOMAIN st.nodes :
        \/ st.nodes[p].ctr = 0
        \/ /\ st.nodes[p].ctr = MAX_REC_LIMIT
           /\ outcome = "error"
           /\ err = Error("str")

\* C9: interpreting a while loop always terminates: a while loop that has
\* been entered is left again, also when its condition stays truthy (a loop
\* the model cuts off at MaxIter counts as left).
C9_WhileTerminates ==
    (pc \in {"while", "whileBody"}) ~> (pc \notin {"while", "whileBody"})

RECURSIVE CountingLines(_, _, _)
\* the lines of iterations i..n-1 of CountingFor(n); `player` is the player
\* of the score s, so that s = i is emitted, and empty when s is no score
CountingLines(i, n, player) ==
    IF i >= n THEN <<>>
    ELSE (IF player # <<>>
          THEN <<MinecraftCommand(
                     <<"s","c","o","r","e","b","o","a","r","d"," ",
                       "p","l","a","y","e","r","s"," ","s","e","t"," ">>
                     \o player \o <<" ","o","b","j"," ">> \o IntToStr(i))>>
          ELSE <<>>)
         \o <<MinecraftCommand(<<"s","a","y"," ","h","i">>)>>
         \o CountingLines(i + 1, n, player)

\* C10: for (i = 0; i < n; i++) { s = i; say hi } returns the body's lines
\* of the iterations i = 0..n-1 in that order, each with the value i had in
\* that iteration, nothing for n = 0, and leaves i = n.
C10_ForUnrolls ==
    \A n \in 0..MaxN :
        (Finished("For") /\ prog[Last] = CountingFor(n)) =>
            /\ parts[Last] = MinecraftCommandList(
                                 CountingLines(0, n,
                                     IF isScore(st.ctx, Lit.s)
                                     THEN getScore(st.ctx, Lit.s)[2].v ELSE <<>>))
            /\ getVariable(st.ctx, Lit.i) = IntV(n)

\* the loop for n = 2 finished with s a score: four lines
C10_Witness ==
    /\ Finished("For")
    /\ prog[Last] = CountingFor(2)
    /\ isScore(st.ctx, Lit.s)
    /\ Len(parts[Last].v) = 4

\* the score declaration of a statement: the node of `score n : obj` itself,
\* the decl of `score n : obj = e`, and no node for other statements
Declares(stmt, name) ==
    \/ stmt.kind = "ScoreDecl" /\ stmt.name = name
    \/ stmt.kind = "ScoreInit" /\ stmt.decl.name = name

DeclOf(stmt) == IF stmt.kind = "ScoreInit" THEN stmt.decl ELSE stmt

\* the identifiers of the programs
Names == {Lit.i, Lit.x, Lit.y, Lit.s}

\* C11: declaring a score whose name is already registered fails with
\* NameError and leaves the score maps unchanged; declaring a fresh name
\* registers name -> (objective, player) in the current context and returns
\* Null; so every declared name maps to the pair of its first declaration.
C11_ScoreDeclaredOnce ==
    /\ Finished("ScoreDecl") =>
          /\ ~isScore(preSt.ctx, prog[Last].name)
          /\ parts[Last] = NULL
          /\ st.ctx = [preSt.ctx EXCEPT !.frames[1].scores =
                          Put(@, prog[Last].name,
                              <<StrV(prog[Last].scoreboard),
                                StrV(prog[Last].scoreboard_name)>>)]
    /\ Aborted("ScoreDecl") =>
          /\ isScore(preSt.ctx, prog[idx].name)
          /\ outcome = "error"
          /\ err = Error("NameError")
          /\ st.ctx = preSt.ctx
    /\ \A j \in 1..Len(parts) : \A n \in Names :
          (Declares(prog[j], n) /\ \A k \in 1..(j - 1) : ~Declares(prog[k], n)) =>
              getScore(st.ctx, n) = <<StrV(DeclOf(prog[j]).scoreboard),
                                      StrV(DeclOf(prog[j]).scoreboard_name)>>

\* score s : (obj, x) = 5; score s : obj;  the second declaration failed and
\* s is still (obj, x)
C11_Witness ==
    /\ Aborted("ScoreDecl")
    /\ prog[idx].name = Lit.s
    /\ getScore(st.ctx, Lit.s) = <<StrV(Lit.obj), StrV(Lit.x)>>

\* C12: no identifier is at once a compile-time variable and a score of the
\* same scope chain.
C12_VariableXorScore ==
    \A n \in Names : ~(isVariable(st.ctx, n) /\ isScore(st.ctx, n))

\* the right-hand side of the assignment that finished last is a ScoreRef
RhsIsScoreRef ==
    /\ prog[Last].value.kind = "VariableAccess"
    /\ ~isVariable(preSt.ctx, prog[Last].value.name)
    /\ isScore(preSt.ctx, prog[Last].value.name)

\* C13: an assignment to a declared score binds no variable and emits one
\* command: `scoreboard players set` for an integer right-hand side, and
\* `scoreboard players operation` only for a ScoreRef, with that score's
\* pair; an assignment to another name emits nothing and binds the name.
C13_AssignToScore ==
    Finished("VariableAssign") =>
        LET node == prog[Last]
            sc == getScore(preSt.ctx, node.name)
        IN  IF isScore(preSt.ctx, node.name)
            THEN /\ st.ctx = preSt.ctx
                 /\ parts[Last].k = "MinecraftCommand"
                 /\ node.value.kind = "Integer" =>
                        parts[Last].v = Lit.sb_set \o sc[2].v \o <<" ">> \o sc[1].v
                                        \o <<" ">> \o IntToStr(node.value.value)
                 /\ StartsWith(parts[Last].v, Lit.sb_op) => RhsIsScoreRef
                 /\ RhsIsScoreRef =>
                        LET sc2 == getScore(preSt.ctx, node.value.name)
                        IN  parts[Last].v =
                                Lit.sb_op \o sc[2].v \o <<" ">> \o sc[1].v
                                \o <<" ", "=", " ">> \o sc2[2].v \o <<" ">> \o sc2[1].v
            ELSE /\ parts[Last] = NULL
                 /\ isVariable(st.ctx, node.name)
                 /\ st.ctx.frames[1].scores = preSt.ctx.frames[1].scores

\* C14: `score name : obj = expr` and `score name : (obj, player) = expr`
\* register the score and emit the one line
\* `scoreboard players set <player> <obj> <value>`; expr is an integer
\* literal here.
C14_ScoreInitEmitsSet ==
    (Finished("ScoreInit") /\ prog[Last].value.kind = "Integer") =>
        LET decl == prog[Last].decl
        IN  /\ ~isScore(preSt.ctx, decl.name)
            /\ getScore(st.ctx, decl.name) =
                   <<StrV(decl.scoreboard), StrV(decl.scoreboard_name)>>
            /\ parts[Last] =
                   MinecraftCommand(
                       Lit.sb_set \o decl.scoreboard_name \o <<" ">> \o decl.scoreboard
                       \o <<" ">> \o IntToStr(prog[Last].value.value))

\* score x : obj = 5;  emitted  scoreboard players set x obj 5
C14_Witness ==
    /\ Finished("ScoreInit")
    /\ prog[Last].decl.scoreboard_name = Lit.x
    /\ parts[Last].v = <<"s","c","o","r","e","b","o","a","r","d"," ",
                         "p","l","a","y","e","r","s"," ","s","e","t"," ",
                         "x"," ","o","b","j"," ","5">>

\* C15: add_endings is idempotent: the text it returned is returned
\* unchanged when it is run on it again.
C15_AddEndingsIdempotent == pc = "lex" => add_endings(source) = source

RECURSIVE SourceComments(_)
\* the number of // comment lines among the statements `stmts` and in the
\* bodies of their groups, funcs and loops
SourceComments(stmts) ==
    IF stmts = <<>> THEN 0
    ELSE LET h == Head(stmts)
         IN  (CASE h.kind = "Comment" -> 1
                [] h.kind \in {"Group", "Func", "For", "While"} ->
                       SourceComments(h.body.block)
                [] OTHER -> 0)
             + SourceComments(Tail(stmts))

RECURSIVE HashLines(_, _)
\* the number of lines that start with # in the files `names` of `files`
HashLines(files, names) ==
    IF names = {} THEN 0
    ELSE LET f == CHOOSE n \in names : TRUE
             lines == Split(files[f], "\n")
         IN  Cardinality({ i \in 1..Len(lines) : StartsWith(lines[i], <<"#">>) })
             + HashLines(files, names \ {f})

\* C17: with comment emission on, the files a successful compile wrote hold
\* as many # lines as the source has // comment lines, wherever the
\* comments sit.
C17_CommentsPreserved ==
    (pc = "done" /\ outcome = "ok") =>
        HashLines(st.files, DOMAIN st.files) = SourceComments(prog)

\* C18: func "Name" { block } writes the block's lines to the file named
\* Name plus the extension of dstFile, whatever dstFile is called, and gives
\* the caller Null.
C18_FuncSiblingFile ==
    Finished("Func") =>
        LET dst == st.ctx.dstFile
            sibling == prog[Last].name \o DropFirst(dst, Len(PathStem(dst)))
            body == Interp(prog[Last].body, <<Last>>, preSt)
        IN  /\ parts[Last] = NULL
            /\ sibling \in DOMAIN st.files
            /\ st.files[sibling] = ListToStr(body.value.v)

\* C19: `/` on two compile-time integers gives the truncated integer
\* quotient, an Integer: 4 / 2 is 2 and 7 / 2 is 3.
C19_IntegerDivision ==
    (/\ Finished("VariableAssign")
     /\ prog[Last].value.kind = "BinaryDiv"
     /\ ~isScore(preSt.ctx, prog[Last].name)) =>
        getVariable(st.ctx, prog[Last].name) =
            IntV(prog[Last].value.left.value \div prog[Last].value.right.value)

\* C20: a compile that fails returns a diagnostic of one of the five kinds
\* to its caller: it does not end the process, raise, or return a bare
\* string.  SynatxError is the source's spelling of SyntaxError.
C20_DiagnosticsReturned ==
    pc = "done" =>
        \/ outcome = "ok"
        \/ /\ outcome = "error"
           /\ err.cls \in {"SynatxError", "UnexpectedEndError", "NameError",
                            "ValueError", "RuntimeError"}


RECURSIVE Included(_)
\* the lines an include pass is to give for `lines`: the text of the named
\* file in the place of a directive line, nothing for a file that is absent
Included(lines) ==
    IF lines = <<>> THEN <<>>
    ELSE LET line == Head(lines)
             name == SubSeq(line, 10, Len(line) - 1)
         IN  (IF Len(line) > 10 /\ include_match(line) = Len(line)
              THEN IF name \in DOMAIN IncludeDir THEN <<IncludeDir[name]>> ELSE <<>>
              ELSE <<line>>)
             \o Included(Tail(lines))

\* C21: include replaces every line `include <NAME>` by the text of the
\* file NAME as it is (an include directive in that text stays), and a
\* directive that names no file is removed with its line: no empty line
\* is left where it stood.
C21_IncludeReplaces ==
    pc = "lex" => splitlines(include(input)) = Included(splitlines(input))


\* line.rstrip("\n ").lstrip("\t ")
Trimmed(line) == LStrip(RStrip(line, {"\n", " "}), {"\t", " "})

\* comment mode at line i of `lines`: a line at or before i starts with /*
\* and no line from there to the one before i ends in */
CommentMode(lines, i) ==
    \E j \in 1..i :
        /\ StartsWith(Trimmed(lines[j]), <<"/", "*">>)
        /\ \A k \in j..(i - 1) : ~EndsWith(Trimmed(lines[k]), <<"*", "/">>)

\* the line takes a `;`
TakesEnding(lines, i) ==
    LET line == Trimmed(lines[i])
    IN  /\ line # <<>>
        /\ ~CommentMode(lines, i)
        /\ \/ \E k \in 1..Len(MINECRAFT_KEYWORDS) : StartsWith(line, MINECRAFT_KEYWORDS[k])
           \/ /\ line[Len(line)] \notin {"{", "(", "}", ",", ";"}
              /\ ~StartsWith(line, <<"/", "/">>)

\* C24: add_endings appends `;` to a line exactly when the line is not
\* empty, comment mode is off, and the line starts with a command keyword
\* or neither ends in one of { ( } , ; nor starts with //.  Comment mode
\* is entered by a line that starts with /* and left after a line that ends
\* in */, so no line of a block comment, the first, the last and a
\* one-line /* ... */ included, gets a `;`.
C24_EndingsOutsideComments ==
    pc = "lex" =>
        LET lines == splitlines(include(input))
            out == splitlines(source)
        IN  /\ Len(out) >= Len(lines)
            /\ \A i \in 1..Len(lines) :
                  /\ out[i] = IF TakesEnding(lines, i)
                              THEN Trimmed(lines[i]) \o <<";">>
                              ELSE Trimmed(lines[i])
                  /\ CommentMode(lines, i) => out[i] = Trimmed(lines[i])

\* /* a | say hi | b */ : the command inside the block comment and the
\* two lines that open and close it are returned as they are
C24_Witness ==
    /\ pc = "lex"
    /\ input = <<"/","*"," ","a","\n","s","a","y"," ","h","i","\n","b"," ","*","/">>
    /\ source = input \o <<"\n">>


\* the first word of a line: the characters in front of its first space
FirstWord(line) == SubSeq(line, 1, RunLen(line, Range(line) \ {" "}))

\* C27: a line is a raw command only when its first word is a reserved
\* command name.  A line whose first word only begins with the letters of
\* one (while (i < 3) { with w, time_left = 5 with time) is not matched by
\* the MCCMD pattern, and add_endings treats it as any other statement:
\* it gets no `;` when it ends in one of { ( } , ;
C27_FirstWordExact ==
    pc = "lex" =>
        LET lines == splitlines(include(input))
            out == splitlines(source)
        IN  \A i \in 1..Len(lines) :
               (/\ Trimmed(lines[i]) # <<>>
                /\ ~CommentMode(lines, i)
                /\ FirstWord(Trimmed(lines[i])) \notin Range(MINECRAFT_KEYWORDS))
               => /\ MCCMD_match(out[i] \o <<"\n">>) = 0
                  /\ Trimmed(lines[i])[Len(Trimmed(lines[i]))] \in {"{", "(", "}", ",", ";"}
                       => out[i] = Trimmed(lines[i])


RECURSIVE FuncNames(_)
\* the names of the func definitions in `stmts`, nested ones included
FuncNames(stmts) ==
    IF stmts = <<>> THEN {}
    ELSE LET h == Head(stmts)
         IN  (CASE h.kind = "Func" -> {h.name} \cup FuncNames(h.body.block)
                [] h.kind \in {"Group", "For", "While"} -> FuncNames(h.body.block)
                [] OTHER -> {})
             \cup FuncNames(Tail(stmts))

\* C23: a compile that succeeds has written the primary file at outFile and
\* one file for each func definition, and nothing else, whatever the source
\* text is; for the empty source the primary file is written empty.
C23_OutputsWritten ==
    (pc = "done" /\ outcome = "ok") =>
        LET dst == st.ctx.dstFile
        IN  /\ DOMAIN st.files =
                 {dst} \cup { name \o DropFirst(dst, Len(PathStem(dst))) :
                                name \in FuncNames(prog) }
            /\ input = <<>> => st.files[dst] = <<>>


\* C25: an identifier gives the value of the variable of that name, else
\* the name itself as a reference to the score of that name, else the
\* diagnostic NameError.  `x = y` assigns what y gave; when y gives
\* NameError the compile fails with it and the context stays as it was, so
\* x is not bound by the statement.
C25_IdentifierLookup ==
    /\ (Finished("VariableAssign") /\ prog[Last].value.kind = "VariableAccess") =>
          LET name == prog[Last].value.name
              value == IF isVariable(preSt.ctx, name)
                       THEN getVariable(preSt.ctx, name) ELSE StrV(name)
              assigned == VariableAssignNode_assign(prog[Last], Success(value, preSt))
          IN  /\ isVariable(preSt.ctx, name) \/ isScore(preSt.ctx, name)
              /\ parts[Last] = assigned.value
              /\ st = assigned.st
    /\ (Aborted("VariableAssign") /\ prog[idx].value.kind = "VariableAccess") =>
          /\ ~isVariable(preSt.ctx, prog[idx].value.name)
          /\ ~isScore(preSt.ctx, prog[idx].value.name)
          /\ outcome = "error"
          /\ err = Error("NameError")
          /\ st = preSt

\* i = 0; x = y  failed at x = y: i is bound, x is not
C25_Witness ==
    /\ Aborted("VariableAssign")
    /\ err = Error("NameError")
    /\ prog[idx].name = Lit.x
    /\ isVariable(st.ctx, Lit.i)
    /\ ~isVariable(st.ctx, Lit.x)


\* the [objective, player] pairs of the scores the context holds
Declared == { st.ctx.frames[1].scores[n] : n \in DOMAIN st.ctx.frames[1].scores }

\* C26: a `scoreboard players operation` line names two declared scores,
\* and a `scoreboard players set` line one: a string literal, or what a
\* binary operator made of two score references, is not taken for a score
\* reference, and no line names the player or objective None.
C26_DeclaredScoresOnly ==
    \A i \in 1..Len(parts) :
        parts[i].k = "MinecraftCommand" =>
            /\ StartsWith(parts[i].v, Lit.sb_op) =>
                  \E a \in Declared, b \in Declared :
                      parts[i] = ScoreOperationCommand(a[1], a[2], b[1], b[2])
            /\ StartsWith(parts[i].v, Lit.sb_set) =>
                  \E a \in Declared :
                      StartsWith(parts[i].v,
                                 Lit.sb_set \o a[2].v \o <<" ">> \o a[1].v \o <<" ">>)


\* C28: a McCmdNode is left by every interpretation as it was built, with
\* loop = True and ctr = 0, so that the next interpretation of the same
\* node has all MAX_REC_LIMIT passes.
C28_NodeStateRestored ==
    \A p \in DOMAIN st.nodes : st.nodes[p].loop /\ st.nodes[p].ctr = 0


\* C29: `score name : obj = expr` registers nothing when it fails: the
\* context after the failure is the context before the statement.  expr
\* is evaluated before the name is registered, so an identifier in expr
\* that succeeded was a variable or a score before the statement, and
\* `score x : obj = x` with x not declared fails with NameError.
C29_ScoreInitAtomic ==
    /\ Aborted("ScoreInit") => st.ctx = preSt.ctx
    /\ (Finished("ScoreInit") /\ prog[Last].value.kind = "VariableAccess") =>
          \/ isVariable(preSt.ctx, prog[Last].value.name)
          \/ isScore(preSt.ctx, prog[Last].value.name)

\* the calls of on_modified that started a compile, in order
Compiles == SelectSeq(watch.log, LAMBDA e : e.compiled)

\* a call of on_modified less than a second after last_modified was set (by
\* __init__ or by the call before that compiled) starts no compile, and no
\* call is made while a compile runs: the last call is the one that started it
DebounceWindow ==
    /\ \A i \in 1..Len(watch.log) :
          watch.log[i].since < Second => ~watch.log[i].compiled
    /\ pc # "done" => (watch.log # <<>> /\ watch.log[Len(watch.log)].compiled)

\* C22 as stated: any two compiles the handler starts begin more than one
\* second apart, an event that arrives within a second of the last accepted
\* one (or of the handler's creation) starts no compile, and no compile
\* starts while one runs.
C22_DebounceStrict ==
    /\ DebounceWindow
    /\ \A i \in 1..Len(Compiles) : \A j \in (i + 1)..Len(Compiles) :
          Compiles[j].at - Compiles[i].at > Second

\* C22: any two compiles the handler starts begin at least one second apart,
\* and more than one second apart when the handler is FileAutoCompiler; an
\* event that arrives within a second of the last accepted one (or of the
\* handler's creation) starts no compile, and no compile starts while one
\* runs.
C22_DebounceAtLeast ==
    /\ DebounceWindow
    /\ \A i \in 1..Len(Compiles) : \A j \in (i + 1)..Len(Compiles) :
          /\ Compiles[j].at - Compiles[i].at >= Second
          /\ watch.handler = "FileAutoCompiler" =>
                Compiles[j].at - Compiles[i].at > Second

\* three calls: the first compiled, the second came inside the window and
\* did not, the third compiled
C22_Witness ==
    /\ Len(watch.log) = 3
    /\ watch.log[1].compiled
    /\ ~watch.log[2].compiled
    /\ watch.log[3].compiled

\* C30: no change is lost: after every call of on_modified a compile starts
\* at that call or at a later time, so a call that came inside the window is
\* made up for.
C30_NoChangeLost ==
    (watch.log # <<>> /\ ~watch.log[Len(watch.log)].compiled)
        ~> (watch.log # <<>> /\ watch.log[Len(watch.log)].compiled)

====
